---- MODULE Spec2Model ----
(***************************************************************************)
(* A model of libresolv: the range algebra (utils.rs), the closure walk    *)
(* and the dual encoder (constraints.rs), the symbolic mirror (expr.rs)    *)
(* and the resolution drivers with the unsat-core decoder (solver.rs).     *)
(*                                                                         *)
(* The SMT engine is outside the repository.  It is modelled by what the   *)
(* drivers rely on: check() answers sat with some assignment satisfying    *)
(* every asserted constraint, unsat with an unsatisfiable core of the      *)
(* tracked assertions, or unknown.                                         *)
(***************************************************************************)
EXTENDS Integers, Sequences, FiniteSets, TLC

VARIABLES
    scenario,         \* which entry point of the library this behaviour exercises
    overflow_checks,  \* build profile: TRUE = u64 overflow panics, FALSE = it wraps
    m_input,          \* merge_and_sort_ranges: the argument `ranges`
    m_output,         \* merge_and_sort_ranges: what the call returned
    m_prev,           \* the output of the previous call, when the output is fed back
    m_pass,           \* number of merge_and_sort_ranges calls made so far
    repo,             \* the Repository handed to the library
    requirements,     \* the top-level RequirementSet
    acc,              \* find_closure_helper: the set `acc` (find_closure's `s`)
    stack,            \* find_closure_helper: requirements the pending loops still visit
    closure,          \* what find_closure returned, once it has
    pc,               \* the statement of the driver that runs next
    tracked,          \* the engine: the assertions made with assert_and_track
    assertion_map,    \* the driver's map from tracking literal to mirror
    result,           \* what the driver returned, once it has
    sat_result,       \* what the engine's check answered, once it has
    decoded           \* process_unsat_core applied to each emitted mirror alone

mergeVars == <<m_input, m_output, m_prev, m_pass>>
inputVars == <<scenario, overflow_checks, repo, requirements>>
closureVars == <<acc, stack, closure>>
solverVars == <<pc, tracked, assertion_map, result, sat_result, decoded>>
vars == <<scenario, overflow_checks, m_input, m_output, m_prev, m_pass,
          repo, requirements, acc, stack, closure,
          pc, tracked, assertion_map, result, sat_result, decoded>>

(***************************************************************************)
(* Bounds of the model.                                                    *)
(***************************************************************************)
\* The largest value of the type Version (u64::MAX in the code), scaled down.
VerMax == 4
\* The longest sequence of ranges handed to merge_and_sort_ranges.
MaxRanges == 3

\* The most packages a repository holds, and the most versions of a package.
NumPkgs == 2
MaxVers == 2

Versions == 0 .. VerMax

(***************************************************************************)
(* types.rs: Range                                                         *)
(***************************************************************************)
Point(v) == [tag |-> "Point", lower |-> v, upper |-> v]
Interval(l, u) == [tag |-> "Interval", lower |-> l, upper |-> u]
All == [tag |-> "All", lower |-> 0, upper |-> 0]

\* Range::interval: None (here <<>>) when lower > upper, Point when they are equal.
RangeInterval(l, u) ==
    IF l < u THEN <<Interval(l, u)>>
    ELSE IF l = u THEN <<Point(l)>>
    ELSE <<>>

(***************************************************************************)
(* utils.rs: interval merging.  An Interval is a pair <<lower, upper>>.    *)
(***************************************************************************)
\* a.1 + 1 in u64 arithmetic: the addition overflows exactly at the maximum.
AddOneOverflows(x) == x = VerMax
\* The addition in an integer one value narrower.
WrappingAddOneNarrow(x) == (x + 1) % VerMax
WrappingAddOne(x) == (x + 1) % (VerMax + 1)

less_no_overlap(a, b) == WrappingAddOne(a[2]) < b[1]

greater_no_overlap(a, b) == less_no_overlap(b, a)

overlaps(a, b) == ~(less_no_overlap(a, b) \/ greater_no_overlap(a, b))

\* Does evaluating less_no_overlap(a, b) / overlaps(a, b) overflow?  `||`
\* short-circuits, so overlaps evaluates the second test only when the first
\* is false.
less_overflows(a, b) == AddOneOverflows(a[2])
overlaps_overflows(a, b) ==
    \/ less_overflows(a, b)
    \/ (~less_no_overlap(a, b) /\ less_overflows(b, a))

Min(x, y) == IF x <= y THEN x ELSE y
Max(x, y) == IF x >= y THEN x ELSE y

merge(a, b) == <<Min(a[1], b[1]), Max(a[2], b[2])>>

\* peeking_take_while(|i| less_no_overlap(*i, interval)) from position k: the
\* first position whose element fails the test (Len + 1 when none does).  The
\* failing element is only peeked at: it stays in the iterator.
RECURSIVE InitEnd(_, _, _)
InitEnd(iset, k, interval) ==
    IF k > Len(iset) THEN k
    ELSE IF less_no_overlap(iset[k], interval) THEN InitEnd(iset, k + 1, interval)
    ELSE k

\* peeking_take_while(|i| overlaps(*i, interval)) from position k.
RECURSIVE OverlapEnd(_, _, _)
OverlapEnd(iset, k, interval) ==
    IF k > Len(iset) THEN k
    ELSE IF overlaps(iset[k], interval) THEN OverlapEnd(iset, k + 1, interval)
    ELSE k

\* merged = merge(merged, *i) for i in positions from .. to - 1
RECURSIVE MergeRun(_, _, _, _)
MergeRun(iset, from, to, merged) ==
    IF from >= to THEN merged
    ELSE MergeRun(iset, from + 1, to, merge(merged, iset[from]))

merge_insert(iset, interval) ==
    LET i == InitEnd(iset, 1, interval)
        j == OverlapEnd(iset, i, interval)
    IN  SubSeq(iset, 1, i - 1)
          \o <<MergeRun(iset, i, j, interval)>>
          \o SubSeq(iset, j, Len(iset))

\* Some u64 addition made while merge_insert(iset, interval) runs overflows.
\* The tests run on positions 1 .. i (less_no_overlap) and i .. j (overlaps),
\* a position past the end being no test.
merge_insert_overflows(iset, interval) ==
    LET i == InitEnd(iset, 1, interval)
        j == OverlapEnd(iset, i, interval)
    IN  \/ \E k \in 1 .. Min(i, Len(iset)) : less_overflows(iset[k], interval)
        \/ \E k \in i .. Min(j, Len(iset)) : overlaps_overflows(iset[k], interval)

\* The closing map of merge_and_sort_ranges: Point when l == u.
ToRange(iv) == IF iv[1] = iv[2] THEN Point(iv[1]) ELSE Interval(iv[1], iv[2])

\* The loop of merge_and_sort_ranges from position k on, with the accumulated
\* iset.  The result is [panic, out]: panic when an addition overflowed in a
\* build with overflow checks (the call unwinds and returns nothing).
RECURSIVE MergeLoop(_, _, _, _)
MergeLoop(ranges, k, iset, checks) ==
    IF k > Len(ranges) THEN
        [panic |-> FALSE, out |-> [n \in 1 .. Len(iset) |-> ToRange(iset[n])]]
    ELSE IF ranges[k].tag = "All" THEN
        [panic |-> FALSE, out |-> <<All>>]
    ELSE
        LET interval == <<ranges[k].lower, ranges[k].upper>>
        IN  IF checks /\ merge_insert_overflows(iset, interval)
            THEN [panic |-> TRUE, out |-> <<>>]
            ELSE MergeLoop(ranges, k + 1, merge_insert(iset, interval), checks)

merge_and_sort_ranges(ranges, checks) == MergeLoop(ranges, 1, <<>>, checks)

(***************************************************************************)
(* The inputs of the range algebra: Points, Intervals with lower <= upper  *)
(* (interval_unchecked builds Interval{l, l}) and All.                     *)
(***************************************************************************)
RangeValues ==
    {Point(v) : v \in Versions}
      \cup {Interval(p[1], p[2]) : p \in {q \in Versions \X Versions : q[1] <= q[2]}}
      \cup {All}

RangeSeqs == UNION {[1 .. n -> RangeValues] : n \in 0 .. MaxRanges}

\* The range algebra is not exercised / the resolver is not exercised.
MergeIdle ==
    /\ m_input = <<>>
    /\ m_output = [panic |-> FALSE, out |-> <<>>]
    /\ m_prev = <<>>
    /\ m_pass = 0

\* No driver has run: nothing asserted, nothing returned.
NoCore ==
    [panic |-> FALSE,
     package_reqs |-> <<>>,
     toplevel_reqs |-> [dependencies |-> <<>>, conflicts |-> <<>>]]
NoResult == [kind |-> "none", plans |-> <<>>, core |-> NoCore, error |-> <<>>]

\* z3::SatResult, with the reason get_reason_unknown gives for Unknown.
SatResult(answer, reason) == [answer |-> answer, reason |-> reason]
NoAnswer == SatResult("none", "")

SolverIdle ==
    /\ sat_result = NoAnswer
    /\ tracked = <<>>
    /\ assertion_map = <<>>
    /\ result = NoResult
    /\ decoded = <<>>

InitMerge ==
    /\ scenario = "merge"
    /\ pc = "merge_and_sort_ranges"
    /\ SolverIdle
    /\ overflow_checks \in BOOLEAN
    /\ m_input \in RangeSeqs
    /\ m_output = [panic |-> FALSE, out |-> <<>>]
    /\ m_prev = <<>>
    /\ m_pass = 0
    /\ repo = [packages |-> <<>>]
    /\ requirements = [dependencies |-> <<>>, conflicts |-> <<>>]
    /\ acc = {}
    /\ stack = <<>>
    /\ closure = [status |-> "none", set |-> {}, index |-> 0]

\* A caller runs merge_and_sort_ranges(&ranges) and collects the iterator.
MergeCall ==
    /\ scenario = "merge"
    /\ m_pass = 0
    /\ m_output' = merge_and_sort_ranges(m_input, overflow_checks)
    /\ m_pass' = 1
    /\ UNCHANGED <<inputVars, closureVars, solverVars, m_input, m_prev>>

\* The caller hands the collected output back to merge_and_sort_ranges.
MergeAgain ==
    /\ scenario = "merge"
    /\ m_pass = 1
    /\ ~m_output.panic
    /\ m_prev' = m_output.out
    /\ m_output' = merge_and_sort_ranges(m_output.out, overflow_checks)
    /\ m_pass' = 2
    /\ UNCHANGED <<inputVars, closureVars, solverVars, m_input>>

NextMerge == MergeCall \/ MergeAgain

SpecMerge == InitMerge /\ [][NextMerge]_vars

(***************************************************************************)
(* Properties of the range algebra.                                        *)
(***************************************************************************)
\* The versions a range sequence denotes, as a set of integers; All stands
\* for itself and is kept apart.
Covers(r, v) == r.tag # "All" /\ r.lower <= v /\ v <= r.upper
UnionOf(rs) == {v \in Versions : \E k \in 1 .. Len(rs) : Covers(rs[k], v)}
HasAll(rs) == \E k \in 1 .. Len(rs) : rs[k].tag = "All"

\* Canonical: sorted by lower bound, pairwise disjoint, non-adjacent, and
\* Point exactly when lower == upper.
WellTagged(r) ==
    /\ r.tag \in {"Point", "Interval"}
    /\ r.lower <= r.upper
    /\ (r.tag = "Point") <=> (r.lower = r.upper)
Canonical(rs) ==
    /\ \A k \in 1 .. Len(rs) : WellTagged(rs[k])
    /\ \A k \in 1 .. Len(rs) - 1 : rs[k].upper + 1 < rs[k + 1].lower

\* C8 (as stated): for every input without All, the output of
\* merge_and_sort_ranges is canonical and its union is the union of the input.
\* A call that panicked returned nothing and is not counted against the claim.
C8_MergeCanonical ==
    (m_pass = 1 /\ ~HasAll(m_input) /\ ~m_output.panic)
        => (Canonical(m_output.out) /\ UnionOf(m_output.out) = UnionOf(m_input))

\* C9: merge_and_sort_ranges applied to its own output returns that output.
C9_MergeIdempotent ==
    m_pass = 2 => (~m_output.panic /\ m_output.out = m_prev)

(***************************************************************************)
(* types.rs: Requirement, RequirementSet, PackageVer, Package, Repository  *)
(***************************************************************************)
Requirement(p, rs) == [package |-> p, versions |-> rs]
RequirementSet(deps, antideps) == [dependencies |-> deps, conflicts |-> antideps]
NoRequirements == RequirementSet(<<>>, <<>>)
PackageVer(rset) == [requirements |-> rset]
Package(id, vs) == [id |-> id, versions |-> vs]

\* impl IntoIterator for &RequirementSet: dependencies chained with conflicts.
into_iter(rset) == rset.dependencies \o rset.conflicts

\* Repository::get_package: packages.get(id as usize); ids count from 0.
HasPackageButLast(r, id) == id + 1 \in 1 .. Len(r.packages) - 1
HasPackage(r, id) == id + 1 \in 1 .. Len(r.packages)
get_package_unchecked(r, id) == r.packages[id + 1]
\* Package::newest_version_number / Repository::newest_ver_of_unchecked
newest_version_number(pkg) == Len(pkg.versions)
newest_ver_of_unchecked(r, id) == newest_version_number(get_package_unchecked(r, id))

(***************************************************************************)
(* constraints.rs: find_closure.  The recursion of find_closure_helper is  *)
(* run one loop iteration at a time: `stack` lists the requirements that   *)
(* the loops of the pending calls have yet to visit, innermost call first. *)
(***************************************************************************)
DependenciesOfVersions(vs, k) ==
    \* a walk that follows dependencies and not conflicts
    LET RECURSIVE deps(_)
        deps(n) == IF n > Len(vs) THEN <<>>
                   ELSE vs[n].requirements.dependencies \o deps(n + 1)
    IN  deps(k)

\* for ver in &package.versions { find_closure_helper(.., &ver.requirements, ..) }
RECURSIVE RequirementsOfVersions(_, _)
RequirementsOfVersions(vs, k) ==
    IF k > Len(vs) THEN <<>>
    ELSE into_iter(vs[k].requirements) \o RequirementsOfVersions(vs, k + 1)

\* One iteration of `for req in iter` in find_closure_helper.
\* A walk that expands the package of every requirement it meets, present in
\* acc or not.
ClosureVisitRevisiting ==
    /\ pc = "find_closure"
    /\ closure.status = "running"
    /\ stack # <<>>
    /\ LET req == Head(stack)
       IN  /\ acc' = acc \cup {req.package}
           /\ IF ~HasPackage(repo, req.package)
              THEN /\ closure' = [status |-> "err", set |-> {}, index |-> req.package]
                   /\ stack' = <<>>
              ELSE /\ closure' = closure
                   /\ stack' = RequirementsOfVersions(
                                   get_package_unchecked(repo, req.package).versions, 1)
                                 \o Tail(stack)
    /\ UNCHANGED <<inputVars, mergeVars, solverVars>>

ClosureVisit ==
    /\ pc = "find_closure"
    /\ closure.status = "running"
    /\ stack # <<>>
    /\ LET req == Head(stack)
           not_present == req.package \notin acc
       IN  /\ acc' = acc \cup {req.package}
           /\ IF not_present /\ ~HasPackage(repo, req.package)
              THEN \* ok_or_else(IllegalIndex)? unwinds every pending call
                   /\ closure' = [status |-> "err", set |-> {}, index |-> req.package]
                   /\ stack' = <<>>
              ELSE /\ closure' = closure
                   /\ stack' =
                        IF not_present
                        THEN RequirementsOfVersions(
                                 get_package_unchecked(repo, req.package).versions, 1)
                               \o Tail(stack)
                        ELSE Tail(stack)
    /\ UNCHANGED <<inputVars, mergeVars, solverVars>>

\* Every loop has ended: find_closure returns Ok(s).
ClosureReturn ==
    /\ pc = "find_closure"
    /\ closure.status = "running"
    /\ stack = <<>>
    /\ closure' = [status |-> "ok", set |-> acc, index |-> 0]
    /\ UNCHANGED <<inputVars, mergeVars, solverVars, acc, stack>>

(***************************************************************************)
(* The repositories the closure walk is run on.  Only the package a        *)
(* requirement names matters to the walk, so every requirement is on All;  *)
(* a package has up to MaxVers versions, each of which may name a package  *)
(* as a dependency or as a conflict.  Ids run to NumPkgs, one past the     *)
(* largest id a repository can hold.                                       *)
(***************************************************************************)
PackageIds == 0 .. NumPkgs
OnAll(t) == Requirement(t, <<All>>)

EdgeSets ==
    {NoRequirements}
      \cup {RequirementSet(<<OnAll(t)>>, <<>>) : t \in PackageIds}
      \cup {RequirementSet(<<>>, <<OnAll(t)>>) : t \in PackageIds}

VersionSeqs(n) == {[k \in 1 .. n |-> PackageVer(rs[k])] : rs \in [1 .. n -> EdgeSets]}

ClosureVersionSeqs == UNION {VersionSeqs(n) : n \in 0 .. MaxVers}

ClosureRepos ==
    UNION {{[packages |-> [i \in 1 .. n |-> Package(i - 1, vss[i])]] :
               vss \in [1 .. n -> ClosureVersionSeqs]} : n \in 0 .. NumPkgs}

ClosureTopLevels ==
    {RequirementSet(d, c) :
        d \in {<<>>} \cup {<<OnAll(t)>> : t \in PackageIds},
        c \in {<<>>} \cup {<<OnAll(t)>> : t \in PackageIds}}

InitClosure ==
    /\ scenario = "closure"
    /\ pc = "find_closure"
    /\ SolverIdle
    /\ overflow_checks = FALSE     \* the walk does no arithmetic
    /\ MergeIdle
    /\ repo \in ClosureRepos
    /\ requirements \in ClosureTopLevels
    /\ acc = {}
    /\ stack = into_iter(requirements)
    /\ closure = [status |-> "running", set |-> {}, index |-> 0]

NextClosure == ClosureVisit \/ ClosureReturn

SpecClosure == InitClosure /\ [][NextClosure]_vars

(***************************************************************************)
(* Properties of the closure.                                              *)
(***************************************************************************)
InBounds(id) == id >= 0 /\ id < Len(repo.packages)

\* The packages a requirement set names.
NamedBy(rset) ==
    {rset.dependencies[k].package : k \in 1 .. Len(rset.dependencies)}
      \cup {rset.conflicts[k].package : k \in 1 .. Len(rset.conflicts)}

\* The packages named by a dependency or a conflict of any version of p.
NamedByPackage(p) ==
    IF InBounds(p)
    THEN UNION {NamedBy(repo.packages[p + 1].versions[v].requirements) :
                   v \in 1 .. Len(repo.packages[p + 1].versions)}
    ELSE {}

\* The least fixed point: the least set that holds the packages the starting
\* requirements name and is closed under NamedByPackage.
RECURSIVE LeastClosed(_)
LeastClosed(S) ==
    LET T == S \cup UNION {NamedByPackage(p) : p \in S}
    IN  IF T = S THEN S ELSE LeastClosed(T)

Reachable == LeastClosed(NamedBy(requirements))

closureDone == scenario = "closure" /\ closure.status \in {"ok", "err"}

\* C5: when every reachable package id is in bounds, find_closure returns
\* exactly the least fixed point.
C5_ClosureIsLeastFixedPoint ==
    (closureDone /\ \A p \in Reachable : InBounds(p))
        => (closure.status = "ok" /\ closure.set = Reachable)

\* A closure with a package reached only through a conflict of the older of
\* two versions of another package.
C5_Witness ==
    /\ closureDone /\ closure.status = "ok"
    /\ \E p \in closure.set, q \in closure.set :
          /\ q \notin NamedBy(requirements)
          /\ Len(repo.packages[p + 1].versions) = 2
          /\ q \in NamedBy(RequirementSet(<<>>,
                      repo.packages[p + 1].versions[1].requirements.conflicts))
          /\ q \notin NamedBy(repo.packages[p + 1].versions[2].requirements)

\* C7: find_closure fails with IllegalIndex exactly when a reached requirement
\* names a package id out of bounds; the error carries such an id and no set
\* is returned.
C7_IllegalIndex ==
    closureDone =>
        /\ (closure.status = "err") <=> (\E p \in Reachable : ~InBounds(p))
        /\ closure.status = "err" =>
              /\ closure.index \in Reachable
              /\ ~InBounds(closure.index)
              /\ closure.set = {}

\* The illegal id is named by a version of a reached package, not at top level.
C7_Witness ==
    /\ closureDone /\ closure.status = "err"
    /\ closure.index \notin NamedBy(requirements)

(***************************************************************************)
(* types/expr.rs: the symbolic mirror.  An expression is a tuple whose     *)
(* first element is its constructor.                                       *)
(***************************************************************************)
ver_eq(pid, version) == <<"VerEq", pid, version>>
ver_le(pid, version) == <<"VerLE", pid, version>>
ver_ge(pid, version) == <<"VerGE", pid, version>>

Atom(a) == <<"Atom", a>>
Bot == <<"Bot">>
Top == <<"Top">>
IsNot(e) == e[1] = "Not"
IsAtom(e, kind) == e[1] = "Atom" /\ e[2][1] = kind

\* Expr::not collapses a double negation as it is built.
Expr_not(e) == IF IsNot(e) THEN e[2] ELSE <<"Not", e>>
Expr_and(e1, e2) == <<"And", e1, e2>>
Expr_or(e1, e2) == <<"Or", e1, e2>>
Expr_implies(e1, e2) == <<"Implies", e1, e2>>

(***************************************************************************)
(* The terms handed to the SMT engine (z3::ast::Bool over Int constants    *)
(* named by package id), kept as syntax; SmtHolds below is their meaning.  *)
(***************************************************************************)
smt_false == <<"false">>
smt_ge(pid, k) == <<"ge", pid, k>>
smt_le(pid, k) == <<"le", pid, k>>
smt_eq(pid, k) == <<"eq", pid, k>>
smt_and(a, b) == <<"and", a, b>>
smt_or(a, b) == <<"or", a, b>>
smt_not(a) == <<"not", a>>
smt_implies(a, b) == <<"implies", a, b>>

Pair(c, m) == [c |-> c, m |-> m]

(***************************************************************************)
(* constraints.rs: the dual encoder.  Each add_constraints is the sequence *)
(* of (constraint, mirror) pairs it hands to expr_cont, in order.          *)
(***************************************************************************)
\* The loop body of Requirement::add_constraints for one canonical range,
\* given the pair built so far.
EncodeRange(pid, r, sofar) ==
    IF r.tag = "Interval" THEN
        LET range_expr == Expr_and(Atom(ver_ge(pid, r.lower)), Atom(ver_le(pid, r.upper)))
        IN  Pair(smt_or(sofar.c, smt_and(smt_ge(pid, r.lower), smt_le(pid, r.upper))),
                 IF sofar.m = Bot THEN range_expr ELSE Expr_or(range_expr, sofar.m))
    ELSE IF r.tag = "Point" THEN
        LET point_expr == Atom(ver_eq(pid, r.lower))
        IN  Pair(smt_or(sofar.c, smt_eq(pid, r.lower)),
                 IF sofar.m = Bot THEN point_expr ELSE Expr_or(point_expr, sofar.m))
    ELSE
        Pair(smt_not(smt_eq(pid, 0)), Expr_not(Atom(ver_eq(pid, 0))))

\* for r in merge_and_sort_ranges(..) { .. }, with the break after All.
RECURSIVE EncodeRanges(_, _, _, _)
EncodeRanges(pid, rs, k, sofar) ==
    IF k > Len(rs) THEN sofar
    ELSE IF rs[k].tag = "All" THEN EncodeRange(pid, rs[k], sofar)
    ELSE EncodeRanges(pid, rs, k + 1, EncodeRange(pid, rs[k], sofar))

\* impl AsConstraints for Requirement: the one pair it emits.
Requirement_add_constraints(req, checks) ==
    EncodeRanges(req.package,
                 merge_and_sort_ranges(req.versions, checks).out,
                 1,
                 Pair(smt_false, Bot))

\* The u64 overflow panic of merge_and_sort_ranges unwinds the encoder.
Requirement_panics(req, checks) == merge_and_sort_ranges(req.versions, checks).panic

\* A continuation that passes the pair on as it is.
NotReversed(pair) == pair

\* A continuation that negates the constraint and leaves the mirror as it is.
ReversedConstraintOnly(pair) == Pair(smt_not(pair.c), pair.m)

\* reversed_cont of RequirementSet::add_constraints
Reversed(pair) == Pair(smt_not(pair.c), Expr_not(pair.m))

\* A requirement set encoder that visits the conflicts before the dependencies.
RequirementSet_conflicts_first(rset, checks) ==
    [k \in 1 .. Len(rset.conflicts) |->
        Reversed(Requirement_add_constraints(rset.conflicts[k], checks))]
      \o [k \in 1 .. Len(rset.dependencies) |->
            Requirement_add_constraints(rset.dependencies[k], checks)]

\* impl AsConstraints for RequirementSet: dependencies, then conflicts negated.
RequirementSet_add_constraints(rset, checks) ==
    [k \in 1 .. Len(rset.dependencies) |->
        Requirement_add_constraints(rset.dependencies[k], checks)]
      \o [k \in 1 .. Len(rset.conflicts) |->
            Reversed(Requirement_add_constraints(rset.conflicts[k], checks))]

RequirementSet_panics(rset, checks) ==
    \E k \in 1 .. Len(into_iter(rset)) : Requirement_panics(into_iter(rset)[k], checks)

\* A continuation that drops the guard `package == ver_counter`.
Unguarded(id, ver_counter, pair) == pair

\* modified_cont of Package::add_constraints for version ver_counter
Guarded(id, ver_counter, pair) ==
    Pair(smt_implies(smt_eq(id, ver_counter), pair.c),
         Expr_implies(Atom(ver_eq(id, ver_counter)), pair.m))

\* A loop that encodes the requirements of the newest version only.
EncodeNewestVersion(pkg, k, checks) ==
    IF pkg.versions = <<>> THEN <<>>
    ELSE LET n == Len(pkg.versions)
             inner == RequirementSet_add_constraints(pkg.versions[n].requirements, checks)
         IN  [j \in 1 .. Len(inner) |-> Guarded(pkg.id, n, inner[j])]

\* The loop over self.versions of Package::add_constraints, from version k.
RECURSIVE EncodeVersions(_, _, _)
EncodeVersions(pkg, k, checks) ==
    IF k > Len(pkg.versions) THEN <<>>
    ELSE LET inner == RequirementSet_add_constraints(pkg.versions[k].requirements, checks)
         IN  [n \in 1 .. Len(inner) |-> Guarded(pkg.id, k, inner[n])]
               \o EncodeVersions(pkg, k + 1, checks)

\* A package encoder that leaves out the closing `package <= ver_counter`.
Package_without_upper_bound(pkg, checks) ==
    <<Pair(smt_ge(pkg.id, 0), Atom(ver_ge(pkg.id, 0)))>>
      \o EncodeVersions(pkg, 1, checks)

\* impl AsConstraints for Package
Package_add_constraints(pkg, checks) ==
    <<Pair(smt_ge(pkg.id, 0), Atom(ver_ge(pkg.id, 0)))>>
      \o EncodeVersions(pkg, 1, checks)
      \o <<Pair(smt_le(pkg.id, Len(pkg.versions)), Atom(ver_le(pkg.id, Len(pkg.versions))))>>

Package_panics(pkg, checks) ==
    \E k \in 1 .. Len(pkg.versions) :
        RequirementSet_panics(pkg.versions[k].requirements, checks)

\* add_all_constraints: every package of pids (a sequence), then the
\* top-level requirement set.
RECURSIVE EncodePackages(_, _, _, _)
EncodePackages(r, pids, k, checks) ==
    IF k > Len(pids) THEN <<>>
    ELSE Package_add_constraints(get_package_unchecked(r, pids[k]), checks)
           \o EncodePackages(r, pids, k + 1, checks)

add_all_constraints(r, pids, rset, checks) ==
    EncodePackages(r, pids, 1, checks) \o RequirementSet_add_constraints(rset, checks)

add_all_constraints_panics(r, pids, rset, checks) ==
    \/ \E k \in 1 .. Len(pids) : Package_panics(get_package_unchecked(r, pids[k]), checks)
    \/ RequirementSet_panics(rset, checks)

\* SetU32::iter(): the members of the closure, in ascending order.
RECURSIVE SetToSeq(_)
SetToSeq(S) ==
    IF S = {} THEN <<>>
    ELSE LET least == CHOOSE x \in S : \A y \in S : x <= y
         IN  <<least>> \o SetToSeq(S \ {least})

(***************************************************************************)
(* The SMT engine: the meaning of a term under an assignment of integers   *)
(* to the package variables.                                               *)
(***************************************************************************)
RECURSIVE SmtHolds(_, _)
SmtHolds(t, a) ==
    CASE t[1] = "false" -> FALSE
      [] t[1] = "ge" -> a[t[2]] >= t[3]
      [] t[1] = "le" -> a[t[2]] <= t[3]
      [] t[1] = "eq" -> a[t[2]] = t[3]
      [] t[1] = "and" -> SmtHolds(t[2], a) /\ SmtHolds(t[3], a)
      [] t[1] = "or" -> SmtHolds(t[2], a) \/ SmtHolds(t[3], a)
      [] t[1] = "not" -> ~SmtHolds(t[2], a)
      [] t[1] = "implies" -> SmtHolds(t[2], a) => SmtHolds(t[3], a)

(***************************************************************************)
(* solver.rs: the unsat-core decoder.  A result carries panic = TRUE where *)
(* the code reaches a panic!, an assert_eq! failure or an unwrap on None.  *)
(***************************************************************************)
Decoded(pid, rs) == [panic |-> FALSE, pid |-> pid, ranges |-> rs]
DecodePanic == [panic |-> TRUE, pid |-> 0, ranges |-> <<>>]

\* One side of Expr::And in process_version_range::go: the bound it sets.
IsBound(e) == IsAtom(e, "VerGE") \/ IsAtom(e, "VerLE")

\* fn go of process_version_range
RECURSIVE go(_)
go(expr) ==
    CASE IsAtom(expr, "VerEq") -> Decoded(expr[2][2], <<Point(expr[2][3])>>)
      [] expr[1] = "And" ->
            LET lhs == expr[2]
                rhs == expr[3]
            IN  IF ~IsBound(lhs) \/ ~IsBound(rhs) THEN DecodePanic
                ELSE
                    LET package_id == lhs[2][2]
                        lb0 == IF IsAtom(lhs, "VerGE") THEN lhs[2][3] ELSE 0
                        ub0 == IF IsAtom(lhs, "VerLE") THEN lhs[2][3] ELSE 0
                        lb == IF IsAtom(rhs, "VerGE") THEN rhs[2][3] ELSE lb0
                        ub == IF IsAtom(rhs, "VerLE") THEN rhs[2][3] ELSE ub0
                    IN  IF package_id # rhs[2][2] \/ RangeInterval(lb, ub) = <<>>
                        THEN DecodePanic
                        ELSE Decoded(package_id, RangeInterval(lb, ub))
      [] expr[1] = "Or" ->
            LET d1 == go(expr[2])
                d2 == go(expr[3])
            IN  IF d1.panic \/ d2.panic \/ d1.pid # d2.pid THEN DecodePanic
                ELSE Decoded(d1.pid, d1.ranges \o d2.ranges)
      [] IsNot(expr) /\ IsAtom(expr[2], "VerEq") /\ expr[2][2][3] = 0 ->
            Decoded(expr[2][2][2], <<All>>)
      [] OTHER -> DecodePanic

\* process_version_range: Requirement::new(pid, ranges)
process_version_range(expr) == go(expr)
AsRequirement(d) == Requirement(d.pid, d.ranges)

\* The ConstraintSet under construction: package_reqs is a function from the
\* package ids present to functions from the versions present to a
\* RequirementSet.

add_dep(rset, req) == [rset EXCEPT !.dependencies = Append(@, req)]
add_antidep(rset, req) == [rset EXCEPT !.conflicts = Append(@, req)]
from_dep(req) == RequirementSet(<<req>>, <<>>)
\* A constructor that files the requirement with the dependencies.
filed_as_dependency(req) == RequirementSet(<<req>>, <<>>)
from_antidep(req) == RequirementSet(<<>>, <<req>>)

\* IntMap::insert of a key that is absent
MapInsert(map, key, value) ==
    [k \in DOMAIN map \cup {key} |-> IF k = key THEN value ELSE map[k]]

\* A filing that replaces what package_reqs[pid][version] held.
RegisterOverwriting(package_reqs, pid, version, req, reverse) ==
    MapInsert(package_reqs, pid,
              MapInsert(IF pid \in DOMAIN package_reqs THEN package_reqs[pid] ELSE <<>>,
                        version,
                        IF reverse THEN from_antidep(req) ELSE from_dep(req)))

\* The tail of the Implies arm of process_unsat_core: file req_ under
\* package_reqs[pid][version], as a conflict when `reverse`.
Register(package_reqs, pid, version, req, reverse) ==
    IF pid \in DOMAIN package_reqs THEN
        IF version \in DOMAIN package_reqs[pid] THEN
            [package_reqs EXCEPT ![pid][version] =
                IF reverse THEN add_antidep(@, req) ELSE add_dep(@, req)]
        ELSE
            [package_reqs EXCEPT ![pid] =
                MapInsert(@, version, IF reverse THEN from_antidep(req) ELSE from_dep(req))]
    ELSE
        MapInsert(package_reqs, pid,
                  MapInsert(<<>>, version,
                            IF reverse THEN from_antidep(req) ELSE from_dep(req)))

\* The body of `for assertion in core_assertions` of process_unsat_core.
DecodeAssertion(r, core, assertion) ==
    LET panicked == [core EXCEPT !.panic = TRUE]
        as_dep(req) ==
            [core EXCEPT !.toplevel_reqs = add_dep(@, req)]
        as_conflict(req) ==
            [core EXCEPT !.toplevel_reqs = add_antidep(@, req)]
    IN
    CASE assertion[1] = "Atom" ->
            LET e == assertion[2]
            IN  IF e[1] = "VerEq" THEN
                    IF e[3] = 0 THEN as_conflict(Requirement(e[2], <<All>>))
                    ELSE as_dep(Requirement(e[2], <<Point(e[3])>>))
                ELSE IF e[1] = "VerLE" THEN
                    IF e[3] # newest_ver_of_unchecked(r, e[2]) THEN panicked ELSE core
                ELSE
                    IF e[3] # 0 THEN panicked ELSE core
      [] assertion[1] = "Not" ->
            LET d == process_version_range(assertion[2])
            IN  IF d.panic THEN panicked ELSE as_conflict(AsRequirement(d))
      [] assertion[1] = "Implies" /\ IsAtom(assertion[2], "VerEq") ->
            LET pid == assertion[2][2][2]
                version == assertion[2][2][3]
                rhs == assertion[3]
                is_zero == IsAtom(rhs, "VerEq") /\ rhs[2][3] = 0
                reverse == is_zero \/ IsNot(rhs)
                d == IF is_zero THEN Decoded(rhs[2][2], <<All>>)
                     ELSE IF IsNot(rhs) THEN process_version_range(rhs[2])
                     ELSE process_version_range(rhs)
            IN  IF d.panic THEN panicked
                ELSE [core EXCEPT !.package_reqs =
                        Register(@, pid, version, AsRequirement(d), reverse)]
      [] OTHER ->
            LET d == process_version_range(assertion)
            IN  IF d.panic THEN panicked ELSE as_dep(AsRequirement(d))

\* process_unsat_core: the loop from position k on; a panic ends it.
RECURSIVE DecodeFrom(_, _, _, _)
DecodeFrom(r, core_assertions, k, core) ==
    IF k > Len(core_assertions) \/ core.panic THEN core
    ELSE DecodeFrom(r, core_assertions, k + 1, DecodeAssertion(r, core, core_assertions[k]))

process_unsat_core(r, core_assertions) == DecodeFrom(r, core_assertions, 1, NoCore)

(***************************************************************************)
(* The SMT engine.  Every atom the encoder builds compares an Int constant *)
(* named by a package id with a numeral, so an assignment of integers can  *)
(* be clamped to -1 .. (largest numeral + 1) without changing the truth of *)
(* any asserted term: the engine's models are searched in that interval.   *)
(***************************************************************************)
RECURSIVE TermConsts(_)
TermConsts(t) ==
    CASE t[1] = "false" -> {}
      [] t[1] \in {"ge", "le", "eq"} -> {t[2]}
      [] t[1] = "not" -> TermConsts(t[2])
      [] OTHER -> TermConsts(t[2]) \cup TermConsts(t[3])

RECURSIVE TermNumerals(_)
TermNumerals(t) ==
    CASE t[1] = "false" -> {}
      [] t[1] \in {"ge", "le", "eq"} -> {t[3]}
      [] t[1] = "not" -> TermNumerals(t[2])
      [] OTHER -> TermNumerals(t[2]) \cup TermNumerals(t[3])

SetMax(S) == CHOOSE x \in S : \A y \in S : y <= x

EngineConsts(trk) == UNION {TermConsts(trk[i].c) : i \in DOMAIN trk}
EngineDomain(trk) ==
    -1 .. SetMax({0} \cup UNION {TermNumerals(trk[i].c) : i \in DOMAIN trk}) + 1
Assignments(trk) == [EngineConsts(trk) -> EngineDomain(trk)]

\* Solver::check is sat: the assignments get_model may return.
Models(trk) ==
    {a \in Assignments(trk) : \A i \in DOMAIN trk : SmtHolds(trk[i].c, a)}

\* For an assignment, the tracking literals of the assertions it falsifies.
Falsified(trk, a) == {trk[i].lit : i \in {j \in DOMAIN trk : ~SmtHolds(trk[j].c, a)}}

\* A set of literals is an unsatisfiable core iff it meets the falsified set
\* of every assignment; with core.minimize the engine returns a minimal one.
Hits(S, F) == \A f \in F : f \cap S # {}
IsMinimalHitting(S, F) == Hits(S, F) /\ \A x \in S : \E f \in F : f \cap S = {x}

\* Hitting the inclusion-minimal sets of F hits all of F.
MinimalSets(F) == {f \in F : \A g \in F : ~(g \subseteq f /\ g # f)}

RECURSIVE HittingSets(_)
HittingSets(F) ==
    IF F = {} THEN {{}}
    ELSE LET f == CHOOSE g \in F : \A h \in F : Cardinality(g) <= Cardinality(h)
             found == UNION {{S \cup {x} : S \in HittingSets({g \in F : x \notin g})} : x \in f}
         IN  {S \in found : IsMinimalHitting(S, F)}

\* Solver::check is unsat: the cores get_unsat_core may return.
UnsatCores(trk) ==
    HittingSets(MinimalSets({Falsified(trk, a) : a \in Assignments(trk)}))

(***************************************************************************)
(* z3_helpers.rs: the metrics, evaluated in a model.                       *)
(***************************************************************************)
\* A sign function that returns its argument.
sgn_identity(a) == a

sgn(a) == IF a > 0 THEN 1 ELSE IF a < 0 THEN -1 ELSE 0

RECURSIVE distance_from_newest(_, _, _)
distance_from_newest(package_pairs, k, model) ==
    IF k > Len(package_pairs) THEN 0
    ELSE LET pkg_ver == model[package_pairs[k][1]]
             max_ver == package_pairs[k][2]
         IN  (IF pkg_ver = 0 THEN 0 ELSE max_ver - pkg_ver)
                + distance_from_newest(package_pairs, k + 1, model)

RECURSIVE installed_packages(_, _, _)
installed_packages(pids, k, model) ==
    IF k > Len(pids) THEN 0
    ELSE sgn(model[pids[k]]) + installed_packages(pids, k + 1, model)

(***************************************************************************)
(* solver.rs: the drivers.                                                 *)
(***************************************************************************)
Drivers == {"simple_solve", "optimize_newest", "optimize_minimal"}

Sat(plan) == [NoResult EXCEPT !.kind = "Sat", !.plans = <<plan>>]
UnsatWithCore(core) == [NoResult EXCEPT !.kind = "UnsatWithCore", !.core = core]
Err(error) == [NoResult EXCEPT !.kind = "Err", !.error = error]
Panicked == [NoResult EXCEPT !.kind = "panic"]

\* Every package id of the repository, in ascending order.
repo_iter == SetToSeq({i - 1 : i \in DOMAIN repo.packages})

\* closure.iter()
closure_iter == SetToSeq(closure.set)

\* A plan_from_model that leaves out what it cannot read and returns the rest.
plan_from_model_partial(model, pids) ==
    LET readable == {i \in DOMAIN pids : pids[i] \in DOMAIN model /\ model[pids[i]] \in Versions}
        kept == SetToSeq(readable)
    IN  [panic |-> FALSE,
         plan |-> [j \in DOMAIN kept |-> <<pids[kept[j]], model[pids[kept[j]]]>>]]

\* plan_from_model: a package without an interpretation, or one whose value
\* is no u64, ends in the panic.
plan_from_model(model, pids) ==
    LET no_interp == {i \in DOMAIN pids : pids[i] \notin DOMAIN model}
        interp_not_u64 ==
            {i \in DOMAIN pids \ no_interp : model[pids[i]] \notin Versions}
    IN  [panic |-> no_interp \cup interp_not_u64 # {},
         plan |-> [i \in DOMAIN pids |->
                      <<pids[i],
                        IF i \in no_interp \cup interp_not_u64 THEN 0
                        ELSE model[pids[i]]>>]]

\* package_pairs of optimize_with
package_pairs == [i \in DOMAIN closure_iter |->
                    <<closure_iter[i], newest_ver_of_unchecked(repo, closure_iter[i])>>]

\* The two metrics handed to Optimize::minimize the other way round.
MetricsSwapped(driver, model) ==
    LET distance == distance_from_newest(package_pairs, 1, model)
        installed == installed_packages(closure_iter, 1, model)
    IN  IF driver = "optimize_newest" THEN <<installed, distance>>
        ELSE <<distance, installed>>

\* The metrics of optimize_newest and of optimize_minimal, in the order in
\* which they are handed to Optimize::minimize.
Metrics(driver, model) ==
    LET distance == distance_from_newest(package_pairs, 1, model)
        installed == installed_packages(closure_iter, 1, model)
    IN  IF driver = "optimize_newest" THEN <<distance, installed>>
        ELSE <<installed, distance>>

\* Optimize with several objectives minimizes them lexicographically.
LexLess(x, y) == x[1] < y[1] \/ (x[1] = y[1] /\ x[2] < y[2])

Optimal(driver, trk) ==
    LET models == Models(trk)
        values == [a \in models |-> Metrics(driver, a)]
    IN  {a \in models : \A b \in models : ~LexLess(values[b], values[a])}

\* An expr_cont that never advances assert_id: every constraint is tracked by
\* literal 0 and the map keeps the last mirror inserted under it.
ExprContSharedLiteral ==
    IF add_all_constraints_panics(repo, closure_iter, requirements, overflow_checks)
    THEN /\ result' = Panicked
         /\ pc' = "return"
         /\ UNCHANGED <<tracked, assertion_map>>
    ELSE LET emitted ==
                add_all_constraints(repo, closure_iter, requirements, overflow_checks)
         IN  /\ tracked' = [i \in DOMAIN emitted |-> [lit |-> 0, c |-> emitted[i].c]]
             /\ assertion_map' = [l \in {i - 1 : i \in DOMAIN emitted} \cap {0} |->
                                    emitted[Len(emitted)].m]
             /\ pc' = "check"
             /\ UNCHANGED result

\* The expr_cont closure of the drivers, over everything add_all_constraints
\* emits: assert_and_track under literal assert_id, one map entry, assert_id += 1.
ExprCont ==
    IF add_all_constraints_panics(repo, closure_iter, requirements, overflow_checks)
    THEN /\ result' = Panicked
         /\ pc' = "return"
         /\ UNCHANGED <<tracked, assertion_map>>
    ELSE LET emitted ==
                add_all_constraints(repo, closure_iter, requirements, overflow_checks)
         IN  /\ tracked' = [i \in DOMAIN emitted |-> [lit |-> i - 1, c |-> emitted[i].c]]
             /\ assertion_map' = [l \in 0 .. Len(emitted) - 1 |-> emitted[l + 1].m]
             /\ pc' = "check"
             /\ UNCHANGED result

\* The arms of `match solver.check()`.
ArmSat(answers) ==
    /\ sat_result' = SatResult("Sat", "")
    /\ \E model \in answers :
        LET p == plan_from_model(model, closure_iter)
        IN  result' = IF p.panic THEN Panicked ELSE Sat(p.plan)

\* The Unsat arm answering with the variant that carries no core.
ArmUnsatPlain ==
    /\ Models(tracked) = {}
    /\ sat_result' = SatResult("Unsat", "")
    /\ result' = [NoResult EXCEPT !.kind = "Unsat"]

ArmUnsat ==
    /\ Models(tracked) = {}
    /\ sat_result' = SatResult("Unsat", "")
    /\ \E core \in UnsatCores(tracked) :
        LET core_vars == SetToSeq(core)
            core_assertions ==
                [i \in DOMAIN core_vars |->
                    IF core_vars[i] \in DOMAIN assertion_map
                    THEN assertion_map[core_vars[i]] ELSE Bot]
            core_ == process_unsat_core(repo, core_assertions)
        IN  result' =
                IF (\E i \in DOMAIN core_vars : core_vars[i] \notin DOMAIN assertion_map)
                    \/ core_.panic
                THEN Panicked
                ELSE UnsatWithCore(core_)

\* What get_reason_unknown may say.
ReasonsUnknown == {"timeout", "canceled"}

\* The Unknown arm handing a model of the assertions to plan_from_model.
ArmUnknownReadsModel ==
    \E reason \in ReasonsUnknown :
        /\ sat_result' = SatResult("Unknown", reason)
        /\ \E a \in Assignments(tracked) :
              result' = Sat(plan_from_model(a, closure_iter).plan)

ArmUnknown ==
    \E reason \in ReasonsUnknown :
        /\ sat_result' = SatResult("Unknown", reason)
        /\ result' = Err(<<"ResolutionFailure", reason>>)

\* find_closure returned Err: the driver hands the error to its caller.
IllegalIndex ==
    /\ scenario \in Drivers \cup {"parallel_optimize_newest", "parallel_optimize_minimal"}
    /\ pc = "find_closure"
    /\ closure.status = "err"
    /\ result' = Err(<<"IllegalIndex", closure.index>>)
    /\ pc' = "return"
    /\ UNCHANGED <<inputVars, mergeVars, closureVars, tracked, assertion_map, sat_result, decoded>>

simple_solve_encode ==
    /\ scenario \in {"simple_solve", "decode"}
    /\ pc = "find_closure"
    /\ closure.status = "ok"
    /\ ExprCont
    /\ UNCHANGED <<inputVars, mergeVars, closureVars, sat_result, decoded>>

simple_solve_check ==
    /\ scenario = "simple_solve"
    /\ pc = "check"
    /\ \/ ArmUnsat
       \/ ArmUnknown
       \/ ArmSat(Models(tracked))
    /\ pc' = "return"
    /\ UNCHANGED <<inputVars, mergeVars, closureVars, tracked, assertion_map, decoded>>

optimize_with_encode ==
    /\ scenario \in {"optimize_newest", "optimize_minimal"}
    /\ pc = "find_closure"
    /\ closure.status = "ok"
    /\ ExprCont
    /\ UNCHANGED <<inputVars, mergeVars, closureVars, sat_result, decoded>>

optimize_with_check ==
    /\ scenario \in {"optimize_newest", "optimize_minimal"}
    /\ pc = "check"
    /\ \/ ArmUnsat
       \/ ArmUnknown
       \/ ArmSat(Optimal(scenario, tracked))
    /\ pc' = "return"
    /\ UNCHANGED <<inputVars, mergeVars, closureVars, tracked, assertion_map, decoded>>

(***************************************************************************)
(* The enumerating drivers.                                                *)
(***************************************************************************)
ParallelDrivers == {"parallel_optimize_newest", "parallel_optimize_minimal"}

Reverse(s) == [i \in DOMAIN s |-> s[Len(s) + 1 - i]]

\* enumerate_models: `go` takes the first variable, and for every value the
\* engine finds for it (each found value is fixed for the recursion and then
\* blocked) enumerates the remaining variables; with no variable left, one
\* more check hands the model to cont.  The order in which the engine finds
\* the values is its own: ascending or descending here.
RECURSIVE enumerate_go(_, _, _, _)
enumerate_go(models, vars_, k, descending) ==
    IF k > Len(vars_)
    THEN (IF models = {} THEN <<>> ELSE <<CHOOSE a \in models : TRUE>>)
    ELSE LET found == SetToSeq({a[vars_[k]] : a \in models})
             values == IF descending THEN Reverse(found) ELSE found
             from[j \in 0 .. Len(values)] ==
                IF j = 0 THEN <<>>
                ELSE from[j - 1]
                        \o enumerate_go({a \in models : a[vars_[k]] = values[j]},
                                        vars_, k + 1, descending)
         IN  from[Len(values)]

enumerate_models(trk, vars_, descending) == enumerate_go(Models(trk), vars_, 1, descending)

\* Ord on the tuples the eval closures return.
cmp(c, e) == IF c = e THEN "Equal" ELSE IF LexLess(c, e) THEN "Less" ELSE "Greater"

\* iter_max_map: cur is <<>> for None and <<e>> for Some(e); the closures eval
\* and f are given as functions on the items.
iter_max_map(iter, eval, f) ==
    LET loop[k \in 0 .. Len(iter)] ==
            IF k = 0 THEN [cur |-> <<>>, v |-> <<>>]
            ELSE LET s == loop[k - 1]
                     i == iter[k]
                     e == eval[i]
                 IN  IF s.cur # <<>>
                     THEN (IF cmp(s.cur[1], e) = "Equal"
                           THEN [s EXCEPT !.v = Append(s.v, f[i])]
                           ELSE IF cmp(s.cur[1], e) = "Less"
                           THEN [cur |-> <<e>>, v |-> <<f[i]>>]
                           ELSE s)
                     ELSE [cur |-> <<e>>, v |-> <<f[i]>>]
    IN  loop[Len(iter)].v

\* The eval closures of parallel_optimize_newest and parallel_optimize_minimal.
parallel_eval(driver, model) ==
    LET distance == distance_from_newest(package_pairs, 1, model)
        installed == installed_packages(closure_iter, 1, model)
    IN  IF driver = "parallel_optimize_newest" THEN <<distance, installed>>
        ELSE <<installed, distance>>

SatPlans(plans) == [NoResult EXCEPT !.kind = "Sat", !.plans = plans]

\* The Sat arm of parallel_optimize_with.
ParallelArmSat ==
    /\ Models(tracked) # {}
    /\ sat_result' = SatResult("Sat", "")
    /\ \E descending \in BOOLEAN :
        LET models == enumerate_models(tracked, closure_iter, descending)
            eval == [model \in Models(tracked) |-> parallel_eval(scenario, model)]
            f == [model \in Models(tracked) |-> plan_from_model(model, closure_iter)]
            plans_v == iter_max_map(models, eval, f)
        IN  result' =
                IF plans_v = <<>> \/ \E i \in DOMAIN plans_v : plans_v[i].panic
                THEN Panicked
                ELSE SatPlans([i \in DOMAIN plans_v |-> plans_v[i].plan])

parallel_optimize_with_encode ==
    /\ scenario \in ParallelDrivers
    /\ pc = "find_closure"
    /\ closure.status = "ok"
    /\ ExprCont
    /\ UNCHANGED <<inputVars, mergeVars, closureVars, sat_result, decoded>>

parallel_optimize_with_check ==
    /\ scenario \in ParallelDrivers
    /\ pc = "check"
    /\ \/ ArmUnsat
       \/ ArmUnknown
       \/ ParallelArmSat
    /\ pc' = "return"
    /\ UNCHANGED <<inputVars, mergeVars, closureVars, tracked, assertion_map, decoded>>

(***************************************************************************)
(* The repositories and requirement sets the drivers are run on.  Package  *)
(* 0 offers every shape of requirement the encoder distinguishes (a point, *)
(* ranges that merge, a range ending at the largest Version, All, both     *)
(* lists in use) on package 1; the other packages conflict with package 0. *)
(* One top-level set names an id the repository does not hold.             *)
(***************************************************************************)
Dep(t, rs) == RequirementSet(<<Requirement(t, rs)>>, <<>>)
Conflict(t, rs) == RequirementSet(<<>>, <<Requirement(t, rs)>>)

RichEdgeSets ==
    {NoRequirements,
     Dep(1, <<Point(1)>>),
     Dep(1, <<Interval(2, VerMax), Point(1)>>),
     Conflict(1, <<Point(2), Point(1)>>),
     Conflict(1, <<All>>),
     RequirementSet(<<Requirement(1, <<All>>)>>, <<Requirement(1, <<Point(1)>>)>>)}

PlainEdgeSets ==
    {NoRequirements,
     Conflict(0, <<Point(1)>>)}

SolveVersionSeqs(pool) ==
    UNION {{[k \in 1 .. n |-> PackageVer(rs[k])] : rs \in [1 .. n -> pool]} : n \in 0 .. MaxVers}

SolveRepos ==
    {[packages |-> [i \in 1 .. NumPkgs |-> Package(i - 1, vss[i])]] :
        vss \in {f \in [1 .. NumPkgs -> SolveVersionSeqs(RichEdgeSets)
                                           \cup SolveVersionSeqs(PlainEdgeSets)] :
                    /\ f[1] \in SolveVersionSeqs(RichEdgeSets)
                    /\ \A i \in 2 .. NumPkgs : f[i] \in SolveVersionSeqs(PlainEdgeSets)}}

SolveTopLevels ==
    {NoRequirements,
     Dep(0, <<All>>),
     Dep(0, <<Point(MaxVers)>>),
     Dep(0, <<Point(MaxVers + 1)>>),
     Dep(1, <<All>>),
     Dep(NumPkgs, <<All>>),
     RequirementSet(<<Requirement(0, <<Interval(1, MaxVers)>>)>>, <<Requirement(1, <<All>>)>>),
     RequirementSet(<<Requirement(1, <<Point(1)>>)>>, <<Requirement(0, <<Point(1)>>)>>),
     RequirementSet(<<Requirement(0, <<All>>), Requirement(1, <<All>>)>>, <<>>)}

Init ==
    /\ scenario \in Drivers \cup ParallelDrivers
    /\ overflow_checks \in BOOLEAN
    /\ MergeIdle
    /\ repo \in SolveRepos
    /\ requirements \in SolveTopLevels
    /\ acc = {}
    /\ stack = into_iter(requirements)
    /\ closure = [status |-> "running", set |-> {}, index |-> 0]
    /\ pc = "find_closure"
    /\ SolverIdle

Next ==
    \/ ClosureVisit
    \/ ClosureReturn
    \/ IllegalIndex
    \/ simple_solve_encode
    \/ simple_solve_check
    \/ optimize_with_encode
    \/ optimize_with_check
    \/ parallel_optimize_with_encode
    \/ parallel_optimize_with_check

Spec == Init /\ [][Next]_vars

(***************************************************************************)
(* The decoder on everything the encoder emits: process_unsat_core is      *)
(* handed each mirror of the assertion map on its own.  The requirement    *)
(* under test takes every sequence of up to MaxRanges ranges with lower <= *)
(* upper, in each of the four places a requirement can stand: top-level    *)
(* dependency, top-level conflict, and dependency and conflict of the      *)
(* newest version of package 0.                                            *)
(***************************************************************************)
\* Requirement::versions is a Vec1: at least one range.
DecodeRangeSeqs == RangeSeqs \ {<<>>}

DecodeRepo(rs) ==
    [packages |->
        [i \in 1 .. NumPkgs |->
            IF i = 1
            THEN Package(0, [k \in 1 .. MaxVers |->
                                PackageVer(IF k = MaxVers
                                           THEN RequirementSet(<<Requirement(1, rs)>>,
                                                               <<Requirement(1, rs)>>)
                                           ELSE NoRequirements)])
            ELSE Package(i - 1, [k \in 1 .. MaxVers |-> PackageVer(NoRequirements)])]]

DecodeTopLevel(rs) ==
    RequirementSet(<<Requirement(1, rs)>>, <<Requirement(0, rs)>>)

InitDecode ==
    /\ scenario = "decode"
    /\ overflow_checks \in BOOLEAN
    /\ MergeIdle
    /\ \E rs \in DecodeRangeSeqs :
          /\ repo = DecodeRepo(rs)
          /\ requirements = DecodeTopLevel(rs)
    /\ acc = {}
    /\ stack = into_iter(requirements)
    /\ closure = [status |-> "running", set |-> {}, index |-> 0]
    /\ pc = "find_closure"
    /\ SolverIdle

DecodeEmitted ==
    /\ scenario = "decode"
    /\ pc = "check"
    /\ decoded' = [i \in DOMAIN tracked |->
                      process_unsat_core(repo, <<assertion_map[tracked[i].lit]>>)]
    /\ pc' = "return"
    /\ UNCHANGED <<inputVars, mergeVars, closureVars, tracked, assertion_map, result, sat_result>>

NextDecode ==
    \/ ClosureVisit
    \/ ClosureReturn
    \/ simple_solve_encode
    \/ DecodeEmitted

SpecDecode == InitDecode /\ [][NextDecode]_vars

(***************************************************************************)
(* The domain problem, read off the repository without the encoder.        *)
(***************************************************************************)
\* Version v of a package lies in a range; All stands for "installed".
InRange(r, v) == IF r.tag = "All" THEN v # 0 ELSE r.lower <= v /\ v <= r.upper
\* A requirement is satisfied when its package is at version v.
SatisfiedAt(req, v) == \E k \in DOMAIN req.versions : InRange(req.versions[k], v)

\* A plan is a sequence of (package id, version) pairs.
PlanPackages(plan) == {plan[i][1] : i \in DOMAIN plan}
PlanVersion(plan, p) == plan[CHOOSE i \in DOMAIN plan : plan[i][1] = p][2]

\* The plan gives every package named by rset a version satisfying each
\* dependency and no conflict.
PlanMeets(plan, rset) ==
    /\ \A k \in DOMAIN rset.dependencies :
          /\ rset.dependencies[k].package \in PlanPackages(plan)
          /\ SatisfiedAt(rset.dependencies[k],
                         PlanVersion(plan, rset.dependencies[k].package))
    /\ \A k \in DOMAIN rset.conflicts :
          /\ rset.conflicts[k].package \in PlanPackages(plan)
          /\ ~SatisfiedAt(rset.conflicts[k],
                          PlanVersion(plan, rset.conflicts[k].package))

VersionCount(p) == Len(repo.packages[p + 1].versions)

\* A driver has returned Sat with a plan.
planReturned == scenario \in Drivers /\ pc = "return" /\ result.kind = "Sat"
thePlan == result.plans[1]

\* C1: in every returned plan, the chosen version of every installed package
\* has all its dependencies satisfied and none of its conflicts.
C1_InstalledVersionsMet ==
    planReturned =>
        \A i \in DOMAIN thePlan :
            LET p == thePlan[i][1]
                v == thePlan[i][2]
            IN  v > 0 =>
                  /\ InBounds(p)
                  /\ v <= VersionCount(p)
                  /\ PlanMeets(thePlan, repo.packages[p + 1].versions[v].requirements)

\* A plan installing an older version of a package next to the package that
\* version both depends on and conflicts with, the newest version asking for
\* something else.
C1_Witness ==
    /\ planReturned
    /\ \E i \in DOMAIN thePlan :
          LET p == thePlan[i][1]
              v == thePlan[i][2]
          IN  /\ v > 0 /\ v < VersionCount(p)
              /\ repo.packages[p + 1].versions[v].requirements.dependencies # <<>>
              /\ repo.packages[p + 1].versions[v].requirements.conflicts # <<>>
              /\ repo.packages[p + 1].versions[v + 1].requirements
                    # repo.packages[p + 1].versions[v].requirements

DomainAssignments ==
    {a \in [closure.set -> 0 .. MaxVers] : \A p \in closure.set : a[p] <= VersionCount(p)}

\* The assignment meets a requirement set.
Meets(a, rset) ==
    /\ \A k \in DOMAIN rset.dependencies :
          /\ rset.dependencies[k].package \in DOMAIN a
          /\ SatisfiedAt(rset.dependencies[k], a[rset.dependencies[k].package])
    /\ \A k \in DOMAIN rset.conflicts :
          /\ rset.conflicts[k].package \in DOMAIN a
          /\ ~SatisfiedAt(rset.conflicts[k], a[rset.conflicts[k].package])

\* The assignment solves the domain problem: every installed version's
\* requirements and the top-level requirements are met.
Solves(a) ==
    /\ \A p \in DOMAIN a :
          a[p] > 0 => Meets(a, repo.packages[p + 1].versions[a[p]].requirements)
    /\ Meets(a, requirements)

\* add_all_constraints has run to its end under a driver.
encoded ==
    /\ scenario \in Drivers
    /\ closure.status = "ok"
    /\ pc \in {"check", "return"}
    /\ result.kind # "panic"

\* C4: every assignment solving the domain problem satisfies every emitted
\* constraint, and when there is one the driver, unless the engine answers
\* unknown, returns Sat.
C4_EncodingAdmitsDomainSolutions ==
    (scenario \in Drivers /\ closure.status = "ok" /\ pc \in {"check", "return"}) =>
        \A a \in DomainAssignments :
            Solves(a) =>
                /\ \A i \in DOMAIN tracked : SmtHolds(tracked[i].c, a)
                /\ (pc = "return" /\ sat_result.answer # "Unknown")
                      => result.kind = "Sat"

\* The same, of the calls in which add_all_constraints ran to its end: the
\* encoder did not stop in the overflow panic of merge_insert.
AdmitsDomainSolutionsOnceEncoded ==
    encoded =>
        \A a \in DomainAssignments :
            Solves(a) =>
                /\ \A i \in DOMAIN tracked : SmtHolds(tracked[i].c, a)
                /\ (pc = "return" /\ sat_result.answer # "Unknown")
                      => result.kind = "Sat"

\* Every package of the repository, as add_all_constraints would be handed.
AllPackageIds == SetToSeq({i - 1 : i \in DOMAIN repo.packages})

\* An assignment to the closure, with 0 for every other package.
ExtendedByZero(a) ==
    [p \in {i - 1 : i \in DOMAIN repo.packages} |-> IF p \in DOMAIN a THEN a[p] ELSE 0]

\* C6: an assignment to the closure packages satisfying the constraints
\* emitted for the closure, extended by 0 outside the closure, satisfies the
\* constraints emitted for the whole repository; and the constraints of the
\* closure are among those of the whole repository.
C6_OutsideClosureIrrelevant ==
    encoded =>
        LET whole == add_all_constraints(repo, AllPackageIds, requirements, overflow_checks)
        IN  /\ \A a \in [closure.set -> EngineDomain(tracked)] :
                  (\A i \in DOMAIN tracked : SmtHolds(tracked[i].c, a))
                      => \A j \in DOMAIN whole : SmtHolds(whole[j].c, ExtendedByZero(a))
            /\ \A i \in DOMAIN tracked : \E j \in DOMAIN whole : whole[j].c = tracked[i].c

\* A satisfiable encoding of a closure that leaves out a package whose
\* versions carry requirements on a package of the closure.
C6_Witness ==
    /\ encoded
    /\ closure.set # {}
    /\ Models(tracked) # {}
    /\ \E i \in DOMAIN repo.packages :
          /\ i - 1 \notin closure.set
          /\ \E v \in DOMAIN repo.packages[i].versions :
                NamedBy(repo.packages[i].versions[v].requirements) \cap closure.set # {}

\* The meaning of a decoded ConstraintSet under an assignment.
CoreHolds(core, a) ==
    /\ Meets(a, core.toplevel_reqs)
    /\ \A p \in DOMAIN core.package_reqs :
          \A v \in DOMAIN core.package_reqs[p] :
              a[p] = v => Meets(a, core.package_reqs[p][v])

\* C10: process_unsat_core decodes every emitted mirror without a panic, and
\* what it decodes holds of exactly the assignments of versions 0 .. N_p that
\* satisfy the constraint emitted with the mirror.
C10_DecoderRoundTrip ==
    (scenario = "decode" /\ pc = "return" /\ result.kind # "panic") =>
        \A i \in DOMAIN tracked :
            /\ i \in DOMAIN decoded
            /\ ~decoded[i].panic
            /\ \A a \in DomainAssignments :
                  SmtHolds(tracked[i].c, a) <=> CoreHolds(decoded[i], a)

\* Decoded: a conflict of a package version on two ranges that do not merge,
\* filed under the package and the version as a conflict.
C10_Witness ==
    /\ scenario = "decode" /\ pc = "return" /\ result.kind # "panic"
    /\ \E i \in DOMAIN decoded :
          /\ 0 \in DOMAIN decoded[i].package_reqs
          /\ MaxVers \in DOMAIN decoded[i].package_reqs[0]
          /\ \E k \in DOMAIN decoded[i].package_reqs[0][MaxVers].conflicts :
                Len(decoded[i].package_reqs[0][MaxVers].conflicts[k].versions) = 2

(***************************************************************************)
(* The reported core against the repository.                               *)
(***************************************************************************)
\* Two requirements name the same package and the same set of versions.
SameRequirement(r1, r2) ==
    /\ r1.package = r2.package
    /\ \A v \in Versions : SatisfiedAt(r1, v) <=> SatisfiedAt(r2, v)

\* Every requirement of the sequence `reported` is one of `actual`.
ReportedAmong(reported, actual) ==
    \A k \in DOMAIN reported : \E j \in DOMAIN actual : SameRequirement(reported[k], actual[j])

coreReturned == scenario \in Drivers /\ pc = "return" /\ result.kind = "UnsatWithCore"

\* C11: in a returned core, what is listed as a dependency (conflict) of
\* version v of package p is a dependency (conflict) of that version in the
\* repository, and what is listed as a top-level dependency (conflict) is a
\* top-level dependency (conflict) of the call; All included.
C11_CoreReportsRoles ==
    coreReturned =>
        /\ ReportedAmong(result.core.toplevel_reqs.dependencies, requirements.dependencies)
        /\ ReportedAmong(result.core.toplevel_reqs.conflicts, requirements.conflicts)
        /\ \A p \in DOMAIN result.core.package_reqs :
              \A v \in DOMAIN result.core.package_reqs[p] :
                  /\ InBounds(p)
                  /\ v \in 1 .. VersionCount(p)
                  /\ ReportedAmong(result.core.package_reqs[p][v].dependencies,
                                   repo.packages[p + 1].versions[v].requirements.dependencies)
                  /\ ReportedAmong(result.core.package_reqs[p][v].conflicts,
                                   repo.packages[p + 1].versions[v].requirements.conflicts)

\* The same, of the cores that hold no requirement on All and none on
\* version 0.
NoAllNoZero(rset) ==
    \A k \in DOMAIN into_iter(rset) :
        \A j \in DOMAIN into_iter(rset)[k].versions :
            /\ into_iter(rset)[k].versions[j].tag # "All"
            /\ into_iter(rset)[k].versions[j].lower > 0

CoreReportsRolesOfRanges ==
    (/\ coreReturned
     /\ NoAllNoZero(requirements)
     /\ \A i \in DOMAIN repo.packages : \A v \in DOMAIN repo.packages[i].versions :
            NoAllNoZero(repo.packages[i].versions[v].requirements))
        => C11_CoreReportsRoles

(***************************************************************************)
(* The enumerating drivers: which plans come back.                         *)
(***************************************************************************)
plansReturned == scenario \in ParallelDrivers /\ pc = "return" /\ result.kind = "Sat"

PlansOf(models) == {plan_from_model(a, closure_iter).plan : a \in models}
ReturnedPlans == {result.plans[i] : i \in DOMAIN result.plans}

TiedForMinimum ==
    LET models == Models(tracked)
        values == [a \in models |-> parallel_eval(scenario, a)]
    IN  {a \in models : \A b \in models : ~LexLess(values[b], values[a])}

TiedForMaximum ==
    LET models == Models(tracked)
        values == [a \in models |-> parallel_eval(scenario, a)]
    IN  {a \in models : \A b \in models : ~LexLess(values[a], values[b])}

\* C12: parallel_optimize_newest and parallel_optimize_minimal return exactly
\* the plans of the satisfying models whose metric tuple is tied for the
\* lexicographic minimum.
C12_ParallelReturnsMinimal ==
    plansReturned => ReturnedPlans = PlansOf(TiedForMinimum)

\* What they return: the plans of the models tied for the maximum.
ParallelReturnsMaximal ==
    plansReturned => ReturnedPlans = PlansOf(TiedForMaximum)

(***************************************************************************)
(* The optimizing drivers: the order of the two goals.                     *)
(***************************************************************************)
RECURSIVE SumOver(_, _)
SumOver(S, g) ==
    IF S = {} THEN 0
    ELSE LET x == CHOOSE y \in S : TRUE IN g[x] + SumOver(S \ {x}, g)

\* Of an assignment to the closure: how far the installed packages are from
\* their newest versions, and how many packages are installed.
Distance(a) ==
    SumOver(DOMAIN a, [p \in DOMAIN a |-> IF a[p] = 0 THEN 0 ELSE VersionCount(p) - a[p]])
Installed(a) == Cardinality({p \in DOMAIN a : a[p] > 0})

\* The ordered pair each driver minimizes.
Goal(driver, a) ==
    IF driver = "optimize_newest" THEN <<Distance(a), Installed(a)>>
    ELSE <<Installed(a), Distance(a)>>
OtherDriver(driver) ==
    IF driver = "optimize_newest" THEN "optimize_minimal" ELSE "optimize_newest"

optimumReturned ==
    /\ scenario \in {"optimize_newest", "optimize_minimal"}
    /\ pc = "return"
    /\ result.kind = "Sat"
    /\ \A p \in closure.set : p \in PlanPackages(thePlan)

PlanAssignment == [p \in closure.set |-> PlanVersion(thePlan, p)]

\* C13: the plan optimize_newest returns has the lexicographically least pair
\* (distance_from_newest, installed_packages) among the assignments that solve
\* the domain problem, and the plan optimize_minimal returns the least pair
\* (installed_packages, distance_from_newest); the goals are pushed between
\* the last assertion and the check, which is the step from pc = "find_closure"
\* to pc = "check".
C13_LexicographicallyMinimal ==
    optimumReturned =>
        /\ Solves(PlanAssignment)
        /\ \A a \in DomainAssignments :
              Solves(a) => ~LexLess(Goal(scenario, a), Goal(scenario, PlanAssignment))

\* A returned plan that the other order of the two goals would not have
\* chosen: some solving assignment is strictly better in the other order.
C13_Witness ==
    /\ optimumReturned
    /\ \E a \in DomainAssignments :
          /\ Solves(a)
          /\ LexLess(Goal(OtherDriver(scenario), a),
                     Goal(OtherDriver(scenario), PlanAssignment))

(***************************************************************************)
(* optimize_newest on requirements known to be feasible.                   *)
(***************************************************************************)
\* required_installs: a version of some packages of the repository.
RequiredInstalls ==
    UNION {[S -> 1 .. MaxVers] : S \in SUBSET {i - 1 : i \in DOMAIN repo.packages}}

\* The version of each required package exists, has no conflicts, and depends
\* only on required packages, on ranges holding their required versions.
NoConflictWith(ri) ==
    \A p \in DOMAIN ri :
        /\ ri[p] <= VersionCount(p)
        /\ LET rset == repo.packages[p + 1].versions[ri[p]].requirements
           IN  /\ rset.conflicts = <<>>
               /\ \A k \in DOMAIN rset.dependencies :
                     /\ rset.dependencies[k].package \in DOMAIN ri
                     /\ SatisfiedAt(rset.dependencies[k], ri[rset.dependencies[k].package])

\* The top-level set of the test: `p in All` for every required p.
RequireAll(ri) ==
    LET ps == SetToSeq(DOMAIN ri)
    IN  RequirementSet([k \in DOMAIN ps |-> Requirement(ps[k], <<All>>)], <<>>)

InstallsRequired(ri) ==
    /\ result.kind = "Sat"
    /\ \A p \in DOMAIN ri :
          /\ p \in PlanPackages(thePlan)
          /\ PlanVersion(thePlan, p) \in 1 .. VersionCount(p)
          /\ PlanMeets(thePlan,
                       repo.packages[p + 1].versions[PlanVersion(thePlan, p)].requirements)

\* C14: when required_installs is feasible in the repository, optimize_newest
\* on the dependencies `p in All` of the required packages returns Sat (the
\* engine not answering unknown) with a plan that installs every required
\* package at a version whose requirements the plan meets.
C14_FeasibleInstallsAreSat ==
    (scenario = "optimize_newest" /\ pc = "return" /\ sat_result.answer # "Unknown") =>
        \A ri \in RequiredInstalls :
            (NoConflictWith(ri) /\ requirements = RequireAll(ri)) => InstallsRequired(ri)

\* The same, of the calls in which add_all_constraints ran to its end.
FeasibleInstallsAreSatOnceEncoded ==
    (scenario = "optimize_newest" /\ pc = "return" /\ sat_result.answer # "Unknown"
        /\ result.kind # "panic") =>
        \A ri \in RequiredInstalls :
            (NoConflictWith(ri) /\ requirements = RequireAll(ri)) => InstallsRequired(ri)

\* A feasible call answered Sat: two required packages, one depending on the
\* other.
FeasibleInstallsAnswered ==
    /\ scenario = "optimize_newest" /\ pc = "return" /\ result.kind = "Sat"
    /\ \E ri \in RequiredInstalls :
          /\ Cardinality(DOMAIN ri) = 2
          /\ NoConflictWith(ri)
          /\ requirements = RequireAll(ri)
          /\ \E p \in DOMAIN ri :
                repo.packages[p + 1].versions[ri[p]].requirements.dependencies # <<>>

(***************************************************************************)
(* What the drivers answer.                                                *)
(***************************************************************************)
AllDrivers == Drivers \cup ParallelDrivers

\* The step in which a driver matches on the engine's answer.
Answered == scenario \in AllDrivers /\ pc = "check" /\ pc' = "return"

\* C15: when the engine answers sat or unsat, simple_solve, optimize_newest,
\* optimize_minimal and the parallel variants return Sat with at least one plan
\* when the assertions have a model and UnsatWithCore with the decoded core
\* when they have none; ResolutionResult::Unsat is never returned.
C15_NeverPlainUnsat ==
    [][/\ result'.kind # "Unsat"
       /\ (Answered /\ sat_result'.answer \in {"Sat", "Unsat"}) =>
             IF Models(tracked) # {}
             THEN result'.kind = "Sat" /\ Len(result'.plans) >= 1
             ELSE /\ result'.kind = "UnsatWithCore"
                  /\ ~result'.core.panic]_vars

\* An enumerating driver has answered UnsatWithCore, the core naming
\* requirements of a package version.
C15_Witness ==
    /\ scenario \in ParallelDrivers
    /\ pc = "return"
    /\ result.kind = "UnsatWithCore"
    /\ DOMAIN result.core.package_reqs # {}

\* C16: when the engine's check has answered unknown, the driver has returned
\* Err(ResolutionFailure) with the reason the engine gave, and with it no plan
\* and no core: neither the model nor the unsat core was read.
C16_UnknownIsErr ==
    (scenario \in AllDrivers /\ sat_result.answer = "Unknown") =>
        /\ pc = "return"
        /\ result.kind = "Err"
        /\ result.error = <<"ResolutionFailure", sat_result.reason>>
        /\ result.plans = <<>>
        /\ result.core = NoCore

\* The engine answered unknown on assertions that have a model, under an
\* enumerating driver, and on assertions that have none.
C16_Witness ==
    /\ scenario \in AllDrivers
    /\ sat_result.answer = "Unknown"
    /\ result.kind = "Err"
    /\ tracked # <<>>
    /\ (Models(tracked) # {} => scenario \in ParallelDrivers)

(***************************************************************************)
(* The seed scenarios: the repository of test_simple_solver, p0 with four  *)
(* versions, p1 with one and p2 with two, with the requirements of the     *)
(* test and with none.                                                     *)
(***************************************************************************)
ScenarioRepo(rset1, rset2) ==
    [packages |->
        <<Package(0, [k \in 1 .. 4 |-> PackageVer(NoRequirements)]),
          Package(1, <<PackageVer(rset1)>>),
          Package(2, <<PackageVer(rset2), PackageVer(rset2)>>)>>]

BareRepo == ScenarioRepo(NoRequirements, NoRequirements)
TestRepo == ScenarioRepo(Dep(0, <<Interval(1, 3)>>), Dep(0, <<Interval(3, 4)>>))

ScenarioTopLevels ==
    {Dep(0, <<All>>),
     Dep(1, <<All>>),
     Dep(2, <<All>>),
     Dep(3, <<All>>),
     RequirementSet(<<Requirement(2, <<All>>), Requirement(1, <<Interval(1, 1)>>)>>, <<>>)}

InitScenario ==
    /\ scenario \in AllDrivers
    /\ overflow_checks \in BOOLEAN
    /\ MergeIdle
    /\ repo \in {BareRepo, TestRepo}
    /\ requirements \in ScenarioTopLevels
    /\ acc = {}
    /\ stack = into_iter(requirements)
    /\ closure = [status |-> "running", set |-> {}, index |-> 0]
    /\ pc = "find_closure"
    /\ SolverIdle

SpecScenario == InitScenario /\ [][Next]_vars

\* The All-range scenario has been answered.
allRangeAnswered ==
    /\ scenario \in AllDrivers
    /\ repo = BareRepo
    /\ requirements = Dep(0, <<All>>)
    /\ pc = "return"
    /\ sat_result.answer # "Unknown"

\* C17 as stated: every returned plan gives p0 a version in 1 .. 4 and lists
\* p1 and p2 with version 0.
C17_OthersListedAtZero ==
    allRangeAnswered =>
        /\ result.kind = "Sat"
        /\ \A i \in DOMAIN result.plans :
              /\ {0, 1, 2} \subseteq PlanPackages(result.plans[i])
              /\ PlanVersion(result.plans[i], 0) \in 1 .. 4
              /\ PlanVersion(result.plans[i], 1) = 0
              /\ PlanVersion(result.plans[i], 2) = 0

\* C17, amended: every returned plan gives p0 a version in 1 .. 4 and lists
\* no other package; p1 and p2, outside the closure, are left out of the plan
\* and so not installed.
C17_OnlyClosureListed ==
    allRangeAnswered =>
        /\ result.kind = "Sat"
        /\ \A i \in DOMAIN result.plans :
              /\ PlanPackages(result.plans[i]) = {0}
              /\ Len(result.plans[i]) = 1
              /\ PlanVersion(result.plans[i], 0) \in 1 .. 4

\* simple_solve answered the All-range scenario with an older version of p0.
C17_Witness ==
    /\ allRangeAnswered
    /\ scenario = "simple_solve"
    /\ result.kind = "Sat"
    /\ result.plans = <<<<<<0, 2>>>>>>

(***************************************************************************)
(* internals/types/extended.rs: SetOf::to_ranges.                          *)
(***************************************************************************)
\* The largest key a package's versions are drawn from.
MaxKey == 5

\* Every run pushed as an interval.
AlwaysInterval(low, high) == Interval(low, high)

\* The range pushed for the run low .. high.
RunRange(low, high) == IF high = low THEN Point(low) ELSE Interval(low, high)

\* The loop over map.keys().enumerate(): i is the 0-based position.
RECURSIVE to_ranges_loop(_, _, _, _)
to_ranges_loop(self, keys, i, st) ==
    IF i >= Len(keys) THEN st
    ELSE LET k == keys[i + 1]
             next ==
                IF st.containing
                THEN (IF k \notin self
                      THEN [st EXCEPT !.containing = FALSE,
                                      !.ranges = Append(st.ranges, RunRange(st.low, i))]
                      ELSE st)
                ELSE (IF k \in self
                      THEN [st EXCEPT !.containing = TRUE, !.low = i + 1]
                      ELSE st)
         IN  to_ranges_loop(self, keys, i + 1, next)

to_ranges(self, keys) ==
    LET st == to_ranges_loop(self, keys, 0, [ranges |-> <<>>, containing |-> FALSE, low |-> 1])
    IN  IF st.containing
        THEN Append(st.ranges, RunRange(st.low, Len(keys)))
        ELSE st.ranges

\* The sorted versions of a package, and the sets they are tested against.
KeySeqs == {SetToSeq(S) : S \in SUBSET (1 .. MaxKey)}
KeySets == SUBSET (1 .. MaxKey)

InitToRanges ==
    /\ scenario = "to_ranges"
    /\ pc = "to_ranges"
    /\ SolverIdle
    /\ overflow_checks \in BOOLEAN
    /\ m_input \in [keys : KeySeqs, self : KeySets]
    /\ m_output = [panic |-> FALSE, out |-> <<>>]
    /\ m_prev = <<>>
    /\ m_pass = 0
    /\ repo = [packages |-> <<>>]
    /\ requirements = [dependencies |-> <<>>, conflicts |-> <<>>]
    /\ acc = {}
    /\ stack = <<>>
    /\ closure = [status |-> "none", set |-> {}, index |-> 0]

ToRangesCall ==
    /\ scenario = "to_ranges"
    /\ m_pass = 0
    /\ m_output' = [panic |-> FALSE, out |-> to_ranges(m_input.self, m_input.keys)]
    /\ m_pass' = 1
    /\ UNCHANGED <<inputVars, closureVars, solverVars, m_input, m_prev>>

NextToRanges == ToRangesCall

SpecToRanges == InitToRanges /\ [][NextToRanges]_vars

\* The ordinals of the versions that are members.
MemberOrdinals == {i \in 1 .. Len(m_input.keys) : m_input.keys[i] \in m_input.self}

\* C18: to_ranges returns ranges of 1-based ordinals that are sorted, disjoint
\* and non-adjacent, a Point for a run of one and an Interval with lower <
\* upper for a longer run, whose union is the set of ordinals of the member
\* versions: one range per maximal run, and none exactly when no version is a
\* member.
C18_ToRangesCanonicalRuns ==
    (scenario = "to_ranges" /\ m_pass = 1) =>
        /\ Canonical(m_output.out)
        /\ \A k \in 1 .. Len(m_output.out) :
              m_output.out[k].lower >= 1 /\ m_output.out[k].upper <= Len(m_input.keys)
        /\ {i \in 1 .. Len(m_input.keys) :
               \E k \in 1 .. Len(m_output.out) : Covers(m_output.out[k], i)} = MemberOrdinals
        /\ Len(m_output.out) =
              Cardinality({i \in MemberOrdinals : i - 1 \notin MemberOrdinals})
        /\ (m_output.out = <<>>) <=> (MemberOrdinals = {})

\* A run of one in the middle and a longer run ending at the last version,
\* over keys that are not their own ordinals.
C18_Witness ==
    /\ scenario = "to_ranges" /\ m_pass = 1
    /\ m_input.keys # [i \in 1 .. Len(m_input.keys) |-> i]
    /\ Len(m_output.out) = 2
    /\ m_output.out[1].tag = "Point"
    /\ m_output.out[2].tag = "Interval"
    /\ m_output.out[2].upper = Len(m_input.keys)

(***************************************************************************)
(* The mirror read as a formula.                                           *)
(***************************************************************************)
AtomHolds(x, a) ==
    CASE x[1] = "VerEq" -> a[x[2]] = x[3]
      [] x[1] = "VerLE" -> a[x[2]] <= x[3]
      [] x[1] = "VerGE" -> a[x[2]] >= x[3]

RECURSIVE ExprHolds(_, _)
ExprHolds(e, a) ==
    CASE e[1] = "Atom" -> AtomHolds(e[2], a)
      [] e[1] = "Not" -> ~ExprHolds(e[2], a)
      [] e[1] = "And" -> ExprHolds(e[2], a) /\ ExprHolds(e[3], a)
      [] e[1] = "Or" -> ExprHolds(e[2], a) \/ ExprHolds(e[3], a)
      [] e[1] = "Implies" -> ExprHolds(e[2], a) => ExprHolds(e[3], a)
      [] e[1] = "Bot" -> FALSE
      [] e[1] = "Top" -> TRUE

RECURSIVE ExprConsts(_)
ExprConsts(e) ==
    CASE e[1] = "Atom" -> {e[2][2]}
      [] e[1] = "Not" -> ExprConsts(e[2])
      [] e[1] \in {"And", "Or", "Implies"} -> ExprConsts(e[2]) \cup ExprConsts(e[3])
      [] OTHER -> {}

\* Constraint and mirror speak of the same package variables and agree under
\* every assignment; comparing with numerals 0 .. VerMax, an integer can be
\* clamped to -1 .. VerMax + 1.
LockStep(c, m) ==
    /\ ExprConsts(m) = TermConsts(c)
    /\ \A a \in [TermConsts(c) -> -1 .. VerMax + 1] : SmtHolds(c, a) <=> ExprHolds(m, a)

\* C19: every pair emitted by add_all_constraints is in lock-step, and so is
\* what Requirement and RequirementSet handed to the continuation inside a
\* version's pair: the constraint is (V_P == v) => c exactly when the mirror is
\* VerEq{P,v} -> m, with c and m in lock-step, a conflict negating both.
C19_EncoderMirrorLockStep ==
    (scenario = "decode" /\ pc = "check") =>
        \A i \in DOMAIN tracked :
            LET c == tracked[i].c
                m == assertion_map[tracked[i].lit]
            IN  /\ LockStep(c, m)
                /\ (c[1] = "implies") <=> (m[1] = "Implies")
                /\ (c[1] = "implies") =>
                      /\ c[2][1] = "eq"
                      /\ m[2] = Atom(ver_eq(c[2][2], c[2][3]))
                      /\ LockStep(c[3], m[3])

\* Emitted: the conflict of a version on several ranges, the constraint a
\* negation under the guard and the mirror the negation of an Or.
C19_Witness ==
    /\ scenario = "decode" /\ pc = "check"
    /\ \E i \in DOMAIN tracked :
          /\ tracked[i].c[1] = "implies"
          /\ tracked[i].c[3][1] = "not"
          /\ assertion_map[tracked[i].lit][3][1] = "Not"
          /\ assertion_map[tracked[i].lit][3][2][1] = "Or"

(***************************************************************************)
(* The order of emission.                                                  *)
(***************************************************************************)
\* Where each emitted pair comes from, in the order the claim gives.
RequirementSetOrigins(rset, where) ==
    [k \in 1 .. Len(rset.dependencies) |-> where \o <<"dependency", k>>]
      \o [k \in 1 .. Len(rset.conflicts) |-> where \o <<"conflict", k>>]

RECURSIVE VersionsOrigins(_, _)
VersionsOrigins(p, v) ==
    IF v > VersionCount(p) THEN <<>>
    ELSE RequirementSetOrigins(repo.packages[p + 1].versions[v].requirements, <<p, v>>)
           \o VersionsOrigins(p, v + 1)

PackageOrigins(p) == <<<<p, 0, "ge", 0>>>> \o VersionsOrigins(p, 1) \o <<<<p, 0, "le", 0>>>>

RECURSIVE PackagesOrigins(_, _)
PackagesOrigins(pids, k) ==
    IF k > Len(pids) THEN <<>>
    ELSE PackageOrigins(pids[k]) \o PackagesOrigins(pids, k + 1)

\* -1 stands for the top-level requirement set.
EmissionOrder ==
    PackagesOrigins(closure_iter, 1) \o RequirementSetOrigins(requirements, <<-1, 0>>)

\* The pair of one requirement in its role.
RolePair(rset, role, k) ==
    IF role = "dependency"
    THEN Requirement_add_constraints(rset.dependencies[k], overflow_checks)
    ELSE Reversed(Requirement_add_constraints(rset.conflicts[k], overflow_checks))

\* The pair that belongs at an origin.
PairAt(o) ==
    IF o[3] = "ge" THEN Pair(smt_ge(o[1], 0), Atom(ver_ge(o[1], 0)))
    ELSE IF o[3] = "le"
    THEN Pair(smt_le(o[1], VersionCount(o[1])), Atom(ver_le(o[1], VersionCount(o[1]))))
    ELSE IF o[1] = -1 THEN RolePair(requirements, o[3], o[4])
    ELSE Guarded(o[1], o[2],
                 RolePair(repo.packages[o[1] + 1].versions[o[2]].requirements, o[3], o[4]))

\* C20: the emitted sequence is the one fixed by the repository, the closure
\* order and the requirements: per package of the closure in iteration order,
\* V_P >= 0, then the versions 1 .. N each with its dependencies before its
\* conflicts, then V_P <= N; after all packages the top-level dependencies,
\* then the top-level conflicts; the tracking literals count the pairs from 0.
C20_EmissionOrder ==
    (scenario \in AllDrivers /\ pc = "check") =>
        /\ Len(tracked) = Len(EmissionOrder)
        /\ \A i \in DOMAIN tracked :
              /\ tracked[i].lit = i - 1
              /\ tracked[i].c = PairAt(EmissionOrder[i]).c
              /\ assertion_map[i - 1] = PairAt(EmissionOrder[i]).m

\* Emitted for two packages, a version with a dependency and a conflict, and
\* a top-level set with a dependency and a conflict.
C20_Witness ==
    /\ scenario \in AllDrivers /\ pc = "check"
    /\ Cardinality(closure.set) = 2
    /\ requirements.dependencies # <<>>
    /\ requirements.conflicts # <<>>
    /\ \E i \in DOMAIN repo.packages : \E v \in DOMAIN repo.packages[i].versions :
          /\ repo.packages[i].versions[v].requirements.dependencies # <<>>
          /\ repo.packages[i].versions[v].requirements.conflicts # <<>>

(***************************************************************************)
(* Tracking literals and the assertion map.                                *)
(***************************************************************************)
TrackingLiterals == {tracked[i].lit : i \in DOMAIN tracked}

\* One fresh literal per emitted constraint, numbered from 0 in emission
\* order, and one map entry per literal, holding the mirror emitted with the
\* constraint.
Registered ==
    LET emitted == add_all_constraints(repo, closure_iter, requirements, overflow_checks)
    IN  /\ Len(tracked) = Len(emitted)
        /\ \A i \in DOMAIN tracked : tracked[i].lit = i - 1
        /\ \A i, j \in DOMAIN tracked : i # j => tracked[i].lit # tracked[j].lit
        /\ DOMAIN assertion_map = TrackingLiterals
        /\ Cardinality(DOMAIN assertion_map) = Len(emitted)
        /\ \A i \in DOMAIN tracked : assertion_map[tracked[i].lit] = emitted[i].m

\* C21: in every driver, when check() is about to be called and ever after,
\* each emitted constraint is tracked by its own literal 0, 1, 2, ... and the
\* map holds exactly one entry per constraint; the engine has not answered
\* before that, nothing is registered after, and no driver ends in the panic
\* of a core literal missing from the map.
C21_TrackedBeforeCheck ==
    scenario \in AllDrivers =>
        /\ pc = "find_closure" => (tracked = <<>> /\ assertion_map = <<>> /\ sat_result = NoAnswer)
        /\ pc = "check" => (Registered /\ sat_result = NoAnswer)
        /\ sat_result # NoAnswer => (pc = "return" /\ Registered /\ result.kind # "panic")

\* Registered, with at least two constraints of a version and two of the top
\* level, and the engine has answered unsat.
C21_Witness ==
    /\ scenario \in AllDrivers
    /\ sat_result.answer = "Unsat"
    /\ result.kind = "UnsatWithCore"
    /\ Len(tracked) >= 6
    /\ Len(into_iter(requirements)) = 2

(***************************************************************************)
(* z3_helpers.rs: enumerate_models on the solver's assertion stack.  The   *)
(* solver is what was asserted before the call (base, as the set of        *)
(* assignments it allows, and level0, what is asserted outside any scope)  *)
(* and the scopes pushed since, each the sequence of its assertions.       *)
(***************************************************************************)
\* The Int constants of the solver are 1 .. NumEnumConsts, each bounded to
\* 0 .. MaxEnumValue by the constraints.
NumEnumConsts == 2
MaxEnumValue == 2

EnumConsts == 1 .. NumEnumConsts
EnumAssignments == [EnumConsts -> 0 .. MaxEnumValue]

AssertionHolds(as, a) ==
    IF as[1] = "eq" THEN a[as[2]] = as[3] ELSE a[as[2]] # as[3]

\* Solver::check is Sat iff this set is not empty.
SolverModels(solver) ==
    {a \in solver.base :
        /\ \A j \in DOMAIN solver.level0 : AssertionHolds(solver.level0[j], a)
        /\ \A i \in DOMAIN solver.scopes :
              \A j \in DOMAIN solver.scopes[i] : AssertionHolds(solver.scopes[i][j], a)}

solver_push(solver) == [solver EXCEPT !.scopes = Append(@, <<>>)]
solver_pop(solver) == [solver EXCEPT !.scopes = SubSeq(@, 1, Len(@) - 1)]
solver_assert(solver, as) ==
    IF solver.scopes = <<>> THEN [solver EXCEPT !.level0 = Append(@, as)]
    ELSE [solver EXCEPT !.scopes[Len(solver.scopes)] = Append(@, as)]

\* Which model get_model returns is the engine's choice: here the least one,
\* comparing the constants in the order chooser.order, by ascending or by
\* descending value.
RECURSIVE KeyLess(_, _, _, _)
KeyLess(a, b, chooser, k) ==
    IF k > Len(chooser.order) THEN FALSE
    ELSE LET x == a[chooser.order[k]]
             y == b[chooser.order[k]]
         IN  IF x = y THEN KeyLess(a, b, chooser, k + 1)
             ELSE IF chooser.descending THEN x > y ELSE x < y

get_model(solver, chooser) ==
    LET models == SolverModels(solver)
    IN  CHOOSE a \in models : \A b \in models : ~KeyLess(b, a, chooser, 1)

\* A block_var that blocks nothing.
block_nothing(solver, model, var) == solver

\* block_var and fix_var of enumerate_models
block_var(solver, model, var) == solver_assert(solver, <<"ne", var, model[var]>>)
fix_var(solver, model, var) == solver_assert(solver, <<"eq", var, model[var]>>)

\* A pop that leaves the scope in place.
pop_nothing(solver) == solver

\* The solver.pop(1) that closes go's scope of a variable.
pop_scope(solver) == solver_pop(solver)

\* enumerate_models::go from variable k of vars_, and its while loop; each
\* returns the solver as it leaves it and the models handed to cont.  The
\* loop is cut after MaxEnumValue + 2 rounds, one more than a variable has
\* values.
RECURSIVE models_go(_, _, _, _)
RECURSIVE models_while(_, _, _, _, _)
models_go(solver, vars_, k, chooser) ==
    IF k <= Len(vars_)
    THEN LET looped == models_while(solver_push(solver), vars_, k, chooser, 0)
         IN  [solver |-> pop_scope(looped.solver), out |-> looped.out,
              cut |-> looped.cut]
    ELSE IF SolverModels(solver) # {}
    THEN [solver |-> solver, out |-> <<get_model(solver, chooser)>>, cut |-> FALSE]
    ELSE [solver |-> solver, out |-> <<>>, cut |-> FALSE]

models_while(solver, vars_, k, chooser, round) ==
    IF SolverModels(solver) = {} THEN [solver |-> solver, out |-> <<>>, cut |-> FALSE]
    ELSE IF round > MaxEnumValue + 1 THEN [solver |-> solver, out |-> <<>>, cut |-> TRUE]
    ELSE LET model == get_model(solver, chooser)
             fixed == fix_var(solver_push(solver), model, vars_[k])
             inner == models_go(fixed, vars_, k + 1, chooser)
             blocked == block_var(solver_pop(inner.solver), model, vars_[k])
             rest == models_while(blocked, vars_, k, chooser, round + 1)
         IN  [solver |-> rest.solver, out |-> inner.out \o rest.out,
              cut |-> inner.cut \/ rest.cut]

enumerate_models_on(solver, vars_, chooser) == models_go(solver, vars_, 1, chooser)

\* The variable lists: every non-empty sequence of distinct constants.
RECURSIVE DistinctSeqs(_, _)
DistinctSeqs(S, n) ==
    IF n = 0 THEN {<<>>}
    ELSE {Append(q, x) : q \in DistinctSeqs(S, n - 1), x \in S} 

EnumVarLists ==
    {q \in UNION {DistinctSeqs(EnumConsts, n) : n \in 1 .. NumEnumConsts} :
        \A i, j \in DOMAIN q : i # j => q[i] # q[j]}

EnumChoosers ==
    [order : {q \in DistinctSeqs(EnumConsts, NumEnumConsts) :
                 \A i, j \in DOMAIN q : i # j => q[i] # q[j]},
     descending : BOOLEAN]

\* The solver handed to enumerate_models: any constraints over the bounded
\* constants, at depth 0 or inside one scope that holds an assertion.
EnumSolvers ==
    {[base |-> b, level0 |-> <<>>, scopes |-> sc] :
        b \in SUBSET EnumAssignments,
        sc \in {<<>>, <<<<<<"ne", 1, 0>>>>>>}}

InitEnumerate ==
    /\ scenario = "enumerate_models"
    /\ pc = "enumerate_models"
    /\ SolverIdle
    /\ overflow_checks \in BOOLEAN
    /\ m_input \in [solver : EnumSolvers, vars : EnumVarLists, chooser : EnumChoosers]
    /\ m_output = [solver |-> m_input.solver, out |-> <<>>, cut |-> FALSE]
    /\ m_prev = <<>>
    /\ m_pass = 0
    /\ repo = [packages |-> <<>>]
    /\ requirements = [dependencies |-> <<>>, conflicts |-> <<>>]
    /\ acc = {}
    /\ stack = <<>>
    /\ closure = [status |-> "none", set |-> {}, index |-> 0]

EnumerateCall ==
    /\ scenario = "enumerate_models"
    /\ m_pass = 0
    /\ m_output' = enumerate_models_on(m_input.solver, m_input.vars, m_input.chooser)
    /\ m_pass' = 1
    /\ UNCHANGED <<inputVars, closureVars, solverVars, m_input, m_prev>>

NextEnumerate == EnumerateCall

SpecEnumerate == InitEnumerate /\ [][NextEnumerate]_vars

\* An assignment to the listed variables only.
OnVars(a) == [i \in DOMAIN m_input.vars |-> a[m_input.vars[i]]]

\* C22: enumerate_models hands to cont exactly one model for each assignment
\* to vars that the solver's constraints allow: every such assignment is
\* reported, none twice, and every reported model satisfies the constraints.
C22_EnumerationExact ==
    (scenario = "enumerate_models" /\ m_pass = 1) =>
        /\ ~m_output.cut
        /\ \A i \in DOMAIN m_output.out : m_output.out[i] \in SolverModels(m_input.solver)
        /\ {OnVars(m_output.out[i]) : i \in DOMAIN m_output.out}
              = {OnVars(a) : a \in SolverModels(m_input.solver)}
        /\ \A i, j \in DOMAIN m_output.out :
              i # j => OnVars(m_output.out[i]) # OnVars(m_output.out[j])

\* Enumerated: one variable out of two, with several models per value of it,
\* and more than one value.
C22_Witness ==
    /\ scenario = "enumerate_models" /\ m_pass = 1
    /\ Len(m_input.vars) = 1
    /\ Len(m_output.out) = 2
    /\ Cardinality(SolverModels(m_input.solver)) >= 4

\* C28: when enumerate_models returns, the solver has the scopes it had
\* before, with the same assertions in each, and nothing more asserted
\* outside the scopes: no fix or block assertion remains.
C28_EnumerationRestoresSolver ==
    (scenario = "enumerate_models" /\ m_pass = 1) =>
        /\ Len(m_output.solver.scopes) = Len(m_input.solver.scopes)
        /\ m_output.solver.scopes = m_input.solver.scopes
        /\ m_output.solver.level0 = m_input.solver.level0
        /\ SolverModels(m_output.solver) = SolverModels(m_input.solver)

\* Returned from a solver that was inside a scope, after enumerating two
\* variables over several models.
C28_Witness ==
    /\ scenario = "enumerate_models" /\ m_pass = 1
    /\ Len(m_input.solver.scopes) = 1
    /\ Len(m_input.vars) = 2
    /\ Len(m_output.out) >= 3

(***************************************************************************)
(* solver.rs: plan_from_model on models that lack an interpretation or     *)
(* hold a value that is no u64 (-1 for the negative integers, VerMax + 1   *)
(* for those above the largest u64).                                       *)
(***************************************************************************)
PlanIds == 0 .. NumPkgs
PlanModels == UNION {[S -> -1 .. VerMax + 1] : S \in SUBSET PlanIds}
PlanPidLists ==
    {q \in UNION {DistinctSeqs(PlanIds, n) : n \in 0 .. NumPkgs + 1} :
        \A i, j \in DOMAIN q : i # j => q[i] # q[j]}

InitPlan ==
    /\ scenario = "plan_from_model"
    /\ pc = "plan_from_model"
    /\ SolverIdle
    /\ overflow_checks \in BOOLEAN
    /\ m_input \in [model : PlanModels, pids : PlanPidLists]
    /\ m_output = [panic |-> FALSE, out |-> <<>>]
    /\ m_prev = <<>>
    /\ m_pass = 0
    /\ repo = [packages |-> <<>>]
    /\ requirements = [dependencies |-> <<>>, conflicts |-> <<>>]
    /\ acc = {}
    /\ stack = <<>>
    /\ closure = [status |-> "none", set |-> {}, index |-> 0]

\* A caller of plan_from_model: the panic unwinds and leaves it no plan.
PlanCall ==
    /\ scenario = "plan_from_model"
    /\ m_pass = 0
    /\ LET p == plan_from_model(m_input.model, m_input.pids)
       IN  m_output' = IF p.panic THEN [panic |-> TRUE, out |-> <<>>]
                       ELSE [panic |-> FALSE, out |-> p.plan]
    /\ m_pass' = 1
    /\ UNCHANGED <<inputVars, closureVars, solverVars, m_input, m_prev>>

NextPlan == PlanCall

SpecPlan == InitPlan /\ [][NextPlan]_vars

\* Every supplied package has an interpretation that is a u64.
AllReadable ==
    \A i \in DOMAIN m_input.pids :
        /\ m_input.pids[i] \in DOMAIN m_input.model
        /\ m_input.model[m_input.pids[i]] \in Versions

\* C23: when every supplied package has a u64 interpretation, plan_from_model
\* returns one (pid, version) pair per supplied package, in the order
\* supplied; otherwise it panics and the caller gets no plan, not even a
\* partial one.
C23_PlanOrPanic ==
    (scenario = "plan_from_model" /\ m_pass = 1) =>
        IF AllReadable
        THEN /\ ~m_output.panic
             /\ Len(m_output.out) = Len(m_input.pids)
             /\ \A i \in DOMAIN m_input.pids :
                   m_output.out[i] = <<m_input.pids[i], m_input.model[m_input.pids[i]]>>
        ELSE m_output.panic /\ m_output.out = <<>>

\* Returned: a plan for two packages supplied out of ascending order, one of
\* them not installed, from a model that interprets a third package with a
\* value that is no u64.
C23_Witness ==
    /\ scenario = "plan_from_model" /\ m_pass = 1
    /\ ~m_output.panic
    /\ Len(m_output.out) = 2
    /\ m_output.out[1][1] > m_output.out[2][1]
    /\ \E i \in DOMAIN m_output.out : m_output.out[i][2] = 0
    /\ \E p \in DOMAIN m_input.model : m_input.model[p] \notin Versions

(***************************************************************************)
(* Termination of the closure walk.  The loops of find_closure_helper run  *)
(* on: the walk is not suspended between two requirements.                 *)
(***************************************************************************)
FairSpecClosure == SpecClosure /\ WF_vars(NextClosure)

\* C24: find_closure returns on every repository, cyclic ones included; a
\* package id never leaves acc, and the requirements of a package's versions
\* are put on the walk only in the step that inserts the package into acc, so
\* at most once.
C24_ClosureTerminates ==
    /\ <>(closure.status # "running")
    /\ [][/\ acc \subseteq acc'
          /\ (stack # <<>> /\ stack' # Tail(stack) /\ closure'.status = "running")
                => (Head(stack).package \notin acc /\ Head(stack).package \in acc')]_vars

\* Returned from a repository in which package 0 and package 1 name each
\* other and package 0 names itself.
C24_Witness ==
    /\ scenario = "closure"
    /\ closure.status = "ok"
    /\ closure.set = {0, 1}
    /\ 1 \in NamedByPackage(0)
    /\ 0 \in NamedByPackage(0)
    /\ 0 \in NamedByPackage(1)

(***************************************************************************)
(* A requirement on All among other ranges.                                *)
(***************************************************************************)
\* The pair the encoder emits for the requirement `package 0 in m_input`.
AllPair(pid) == Pair(smt_not(smt_eq(pid, 0)), Expr_not(Atom(ver_eq(pid, 0))))

AllShortCircuited ==
    /\ ~m_output.panic
    /\ m_output.out = <<All>>
    /\ ~Requirement_panics(Requirement(0, m_input), overflow_checks)
    /\ Requirement_add_constraints(Requirement(0, m_input), overflow_checks) = AllPair(0)

\* C25 (as stated): a range sequence with All at any position merges to
\* <<All>> and the requirement's pair is (V_P != 0, Not(VerEq{P, 0})),
\* whatever the other ranges are.
C25_AllShortCircuits ==
    (m_pass = 1 /\ HasAll(m_input)) => AllShortCircuited

\* The ranges in front of the first All are merged before it is seen.
RECURSIVE BeforeAll(_)
BeforeAll(rs) ==
    IF rs = <<>> \/ Head(rs).tag = "All" THEN <<>> ELSE <<Head(rs)>> \o BeforeAll(Tail(rs))

\* The same for the calls in which merging the ranges in front of the first
\* All does not overflow, and for builds without overflow checks.
AllShortCircuitsWithoutOverflow ==
    (/\ m_pass = 1
     /\ HasAll(m_input)
     /\ ~merge_and_sort_ranges(BeforeAll(m_input), overflow_checks).panic)
        => AllShortCircuited

\* All behind other ranges, merged to <<All>>.
AllShortCircuitReached ==
    /\ m_pass = 1
    /\ Len(m_input) = 3
    /\ m_input[3] = All
    /\ m_input[1].tag = "Interval"
    /\ m_input[2].tag = "Point"
    /\ AllShortCircuited

(***************************************************************************)
(* The two metrics as numbers.                                             *)
(***************************************************************************)
OptimizingDrivers == AllDrivers \ {"simple_solve"}

\* The drivers that build the metrics have encoded the closure.
metricsBuilt ==
    /\ scenario \in OptimizingDrivers
    /\ pc = "check"
    /\ closure.status = "ok"

\* The model's values on the packages of the closure.
OnClosure(model) == [p \in closure.set |-> model[p]]

\* C26: on every assignment with 0 <= V_p <= max_ver(p) for the packages of
\* the closure, installed_packages is the number of packages with V_p > 0 and
\* distance_from_newest is the sum of max_ver(p) - V_p over them; both are
\* non-negative, and every model of the encoding is such an assignment, so the
\* value eval_int_expr_in_model converts to u64 is never negative.
C26_MetricsAreCounts ==
    metricsBuilt =>
        /\ \A a \in DomainAssignments :
              /\ installed_packages(closure_iter, 1, a) = Installed(a)
              /\ distance_from_newest(package_pairs, 1, a) = Distance(a)
              /\ Installed(a) >= 0
              /\ Distance(a) >= 0
        /\ \A m \in Models(tracked) :
              /\ closure.set \subseteq DOMAIN m
              /\ OnClosure(m) \in DomainAssignments
              /\ installed_packages(closure_iter, 1, m) >= 0
              /\ distance_from_newest(package_pairs, 1, m) >= 0

\* The encoding has a model that installs one package of the closure at an
\* older version than its newest and leaves another out.
C26_Witness ==
    /\ metricsBuilt
    /\ \E m \in Models(tracked) :
          /\ installed_packages(closure_iter, 1, m) = 1
          /\ distance_from_newest(package_pairs, 1, m) = 1
          /\ \E p \in closure.set : m[p] = 0
          /\ \E p \in closure.set : m[p] > 0 /\ m[p] < VersionCount(p)

(***************************************************************************)
(* The order of the ranges in a decoded requirement.                       *)
(***************************************************************************)
\* Every requirement a decoded core lists.
CoreRequirements(core) ==
    LET of(rset) == {rset.dependencies[k] : k \in DOMAIN rset.dependencies}
                      \cup {rset.conflicts[k] : k \in DOMAIN rset.conflicts}
    IN  of(core.toplevel_reqs)
          \cup UNION {UNION {of(core.package_reqs[p][v]) :
                                v \in DOMAIN core.package_reqs[p]} :
                         p \in DOMAIN core.package_reqs}

decodeReturned == scenario = "decode" /\ pc = "return" /\ result.kind # "panic"

DecodedRequirements ==
    UNION {CoreRequirements(decoded[i]) : i \in {j \in DOMAIN decoded : ~decoded[j].panic}}

\* C27 (as stated): every requirement of a decoded core lists its ranges in
\* canonical form, ascending by lower bound; All stands alone.
C27_DecodedRangesCanonical ==
    decodeReturned =>
        \A req \in DecodedRequirements :
            req.versions = <<All>> \/ Canonical(req.versions)

\* What the decoder gives: the ranges the encoder walked (the output of
\* merge_and_sort_ranges for the one range sequence of the repository) from
\* the last to the first.
DecodedRangesDescending ==
    decodeReturned =>
        \A req \in DecodedRequirements :
            \/ Len(req.versions) = 1
            \/ Reverse(req.versions)
                 = merge_and_sort_ranges(requirements.dependencies[1].versions,
                                         overflow_checks).out

\* A requirement decoded with two ranges, the higher one first.
DecodedDescendingReached ==
    /\ decodeReturned
    /\ \E req \in DecodedRequirements :
          /\ Len(req.versions) = 2
          /\ req.versions[1].lower > req.versions[2].upper + 1

(***************************************************************************)
(* process_unsat_core on lists of mirrors.  The repository gives version 1 *)
(* of package 0 two dependencies and version MaxVers a dependency and a    *)
(* conflict, so that several implications share an antecedent; the decoder *)
(* is run on every sublist of the assertion map, in the order of the       *)
(* literals, and `decoded` maps the set of literals to what it returned.   *)
(***************************************************************************)
CoreRangeSeqs == {rs \in DecodeRangeSeqs : Len(rs) = 1} \cup {<<Point(1), Point(3)>>}

CoreRepo(rs1, rs2) ==
    [packages |->
        [i \in 1 .. NumPkgs |->
            IF i = 1
            THEN Package(0, [k \in 1 .. MaxVers |->
                                PackageVer(IF k = MaxVers
                                           THEN RequirementSet(<<Requirement(1, rs1)>>,
                                                               <<Requirement(1, rs2)>>)
                                           ELSE RequirementSet(<<Requirement(1, rs1),
                                                                 Requirement(1, rs2)>>,
                                                               <<>>))])
            ELSE Package(i - 1, [k \in 1 .. MaxVers |-> PackageVer(NoRequirements)])]]

CoreTopLevel(rs1, rs2) ==
    RequirementSet(<<Requirement(0, rs1)>>, <<Requirement(1, rs2)>>)

InitCore ==
    /\ scenario = "core"
    /\ overflow_checks \in BOOLEAN
    /\ MergeIdle
    /\ \E rs1 \in CoreRangeSeqs, rs2 \in CoreRangeSeqs :
          /\ repo = CoreRepo(rs1, rs2)
          /\ requirements = CoreTopLevel(rs1, rs2)
    /\ acc = {}
    /\ stack = into_iter(requirements)
    /\ closure = [status |-> "running", set |-> {}, index |-> 0]
    /\ pc = "find_closure"
    /\ SolverIdle

\* add_all_constraints with the drivers' expr_cont.
core_encode ==
    /\ scenario = "core"
    /\ pc = "find_closure"
    /\ closure.status = "ok"
    /\ ExprCont
    /\ UNCHANGED <<inputVars, mergeVars, closureVars, sat_result, decoded>>

\* core_assertions of the drivers for the literals of `core`.
CoreAssertions(core) ==
    LET core_vars == SetToSeq(core)
    IN  [i \in DOMAIN core_vars |-> assertion_map[core_vars[i]]]

DecodeCores ==
    /\ scenario = "core"
    /\ pc = "check"
    /\ decoded' = [core \in SUBSET DOMAIN assertion_map |->
                      process_unsat_core(repo, CoreAssertions(core))]
    /\ pc' = "return"
    /\ UNCHANGED <<inputVars, mergeVars, closureVars, tracked, assertion_map, result, sat_result>>

NextCore ==
    \/ ClosureVisit
    \/ ClosureReturn
    \/ core_encode
    \/ DecodeCores

SpecCore == InitCore /\ [][NextCore]_vars

\* The mirrors process_unsat_core passes over: the ground bounds.
BareBound(m) == IsAtom(m, "VerLE") \/ IsAtom(m, "VerGE")

\* The mirrors of `core` that are implications from `package == version`.
WithAntecedent(core, p, v) ==
    {l \in core : /\ assertion_map[l][1] = "Implies"
                  /\ IsAtom(assertion_map[l][2], "VerEq")
                  /\ assertion_map[l][2][2][2] = p
                  /\ assertion_map[l][2][2][3] = v}

RequirementCount(rset) == Len(rset.dependencies) + Len(rset.conflicts)

PackageReqsCount(core_) ==
    SumOver({<<p, v>> \in PackageIds \X Versions :
                p \in DOMAIN core_.package_reqs /\ v \in DOMAIN core_.package_reqs[p]},
            [pv \in PackageIds \X Versions |->
                IF pv[1] \in DOMAIN core_.package_reqs
                      /\ pv[2] \in DOMAIN core_.package_reqs[pv[1]]
                THEN RequirementCount(core_.package_reqs[pv[1]][pv[2]])
                ELSE 0])

coresDecoded == scenario = "core" /\ pc = "return"

\* C29: process_unsat_core returns as many requirements as the list has
\* mirrors other than bare VerLE/VerGE atoms, and the entry
\* package_reqs[p][v] holds as many requirements as the list has implications
\* with the antecedent `p == v`: none is lost, duplicated or overwritten.
C29_CoreCountsMirrors ==
    coresDecoded =>
        \A core \in DOMAIN decoded :
            LET core_ == decoded[core]
            IN  /\ ~core_.panic
                /\ RequirementCount(core_.toplevel_reqs) + PackageReqsCount(core_)
                     = Cardinality({l \in core : ~BareBound(assertion_map[l])})
                /\ \A p \in PackageIds, v \in Versions :
                      IF WithAntecedent(core, p, v) = {}
                      THEN p \in DOMAIN core_.package_reqs => v \notin DOMAIN core_.package_reqs[p]
                      ELSE /\ p \in DOMAIN core_.package_reqs
                           /\ v \in DOMAIN core_.package_reqs[p]
                           /\ RequirementCount(core_.package_reqs[p][v])
                                = Cardinality(WithAntecedent(core, p, v))

\* The whole assertion map decoded: two requirements under each version of
\* package 0, the ground bounds passed over.
C29_Witness ==
    /\ coresDecoded
    /\ DOMAIN assertion_map \in DOMAIN decoded
    /\ \E l \in DOMAIN assertion_map : BareBound(assertion_map[l])
    /\ LET core_ == decoded[DOMAIN assertion_map]
       IN  /\ Len(core_.package_reqs[0][1].dependencies) = 2
           /\ Len(core_.package_reqs[0][MaxVers].dependencies) = 1
           /\ Len(core_.package_reqs[0][MaxVers].conflicts) = 1
           /\ RequirementCount(core_.toplevel_reqs) = 2

(***************************************************************************)
(* The adjacency test below the largest u64.                               *)
(***************************************************************************)
\* Every range of the sequence other than All ends below the largest u64.
BelowMax(rs) == \A k \in DOMAIN rs : rs[k].tag = "All" \/ rs[k].upper < VerMax

AsInterval(r) == <<r.lower, r.upper>>

\* C30: when every range of the input ends below the largest u64, each test
\* less_no_overlap(a, b) on two of them is the comparison a.1 + 1 < b.0 of the
\* integers and overflows in no build; merge_and_sort_ranges does not panic,
\* gives the same output in both builds, and that output is canonical with the
\* union of the input (<<All>> when the input holds All).
C30_AdjacencyTestExact ==
    (m_pass = 1 /\ BelowMax(m_input)) =>
        /\ \A k \in DOMAIN m_input, j \in DOMAIN m_input :
              (m_input[k].tag # "All" /\ m_input[j].tag # "All") =>
                  LET a == AsInterval(m_input[k])
                      b == AsInterval(m_input[j])
                  IN  /\ ~less_overflows(a, b)
                      /\ ~overlaps_overflows(a, b)
                      /\ less_no_overlap(a, b) <=> (a[2] + 1 < b[1])
                      /\ overlaps(a, b) <=> ~(a[2] + 1 < b[1] \/ b[2] + 1 < a[1])
        /\ ~m_output.panic
        /\ m_output = merge_and_sort_ranges(m_input, ~overflow_checks)
        /\ IF HasAll(m_input) THEN m_output.out = <<All>>
           ELSE Canonical(m_output.out) /\ UnionOf(m_output.out) = UnionOf(m_input)

\* Three ranges merged into one, one of them ending just below the largest
\* u64, in a build with overflow checks.
C30_Witness ==
    /\ m_pass = 1
    /\ overflow_checks
    /\ BelowMax(m_input)
    /\ ~HasAll(m_input)
    /\ Len(m_input) = 3
    /\ m_input[1].upper = VerMax - 1
    /\ m_input[2].upper < m_input[3].lower
    /\ Len(m_output.out) = 1

====
